---------------------------- MODULE Spec2Model ----------------------------
(***************************************************************************)
(* A model of tiptoe-rs: the length-prefixed string codec and its square   *)
(* matrix layout (src/src/encoding.rs), the embedding matrix               *)
(* (src/src/utils.rs), the SimplePIR rounds they are served through and    *)
(* the two-round client (src/src/client.rs, src/src/network.rs,            *)
(* src/src/bin/client.rs).                                                 *)
(*                                                                         *)
(* Representation.  A Rust String / &str is the sequence of its UTF-8      *)
(* bytes.  A u64 is the tuple of its 8 bytes, least significant first, so  *)
(* that `byte << (i*8)` and `(packed >> (i*8)) & 0xFF` act on byte i and   *)
(* no 64-bit value has to fit a TLC integer.  A Vec is a sequence, a       *)
(* matrix (Vec<Vec<u64>>) a sequence of rows; Rust index k is TLA+ index   *)
(* k + 1.                                                                  *)
(***************************************************************************)
EXTENDS Integers, Sequences, FiniteSets, TLC

(***************************************************************************)
(* Bounds of the model.                                                    *)
(***************************************************************************)
\* longest input string, in bytes, of the codec specification (> 8: two cells)
MaxLen == 9
\* longest record list of the matrix specification
MaxRecords == 3
\* longest record list of the text-round specification
MaxPirRecords == 2
\* the LWE secret dimension n of the model (SECRET_DIMENSION is 2048)
SecretDim == 1
\* the side of the embedding matrix and the length of an embedding in the
\* model (the source hard-codes 384 for both)
EmbSide == 2
\* how many times update_market_data is called (once by main, then per tick)
MaxUpdates == 2
\* how many times the interval of the update task of run_server ticks
MaxTicks == 2
\* how many times Client::update is called
MaxClientUpdates == 2

(***************************************************************************)
(* Program constants.                                                      *)
(***************************************************************************)
\* const MOD_POWER: u32 = 17;  PLAIN_MOD = 2^MOD_POWER
MOD_POWER == 17
\* the width of the u64 ciphertext cells: arithmetic wraps modulo 2^64
CIPHER_BITS == 64
\* const SCALE_FACTOR: f32 = 1_00.0;
SCALE_FACTOR == 100

(***************************************************************************)
(* Bytes, strings, u64 cells.                                              *)
(***************************************************************************)
\* The characters strings are made of, each the sequence of its UTF-8 bytes:
\* U+0000, 'A' and U+00E9.
Chars == {<<0>>, <<65>>, <<195, 169>>}

RECURSIVE StringsUpTo(_)
\* every string of the characters Chars that is at most n bytes long
StringsUpTo(n) ==
    IF n = 0 THEN {<<>>}
    ELSE LET shorter == StringsUpTo(n - 1)
         IN  shorter \cup
             {x[1] \o x[2] : x \in {y \in shorter \X Chars : Len(y[1]) + Len(y[2]) = n}}

Min(a, b) == IF a <= b THEN a ELSE b
Max(a, b) == IF a >= b THEN a ELSE b

InRange(b, lo, hi) == lo <= b /\ b <= hi
IsCont(bytes, i) == i <= Len(bytes) /\ InRange(bytes[i], 128, 191)

RECURSIVE ValidUtf8From(_, _)
\* core::str::from_utf8: the well-formed UTF-8 byte sequences (Unicode table 3-7)
ValidUtf8From(bytes, i) ==
    IF i > Len(bytes) THEN TRUE
    ELSE LET b == bytes[i] IN
         CASE b <= 127 -> ValidUtf8From(bytes, i + 1)
           [] InRange(b, 194, 223) ->
                IsCont(bytes, i + 1) /\ ValidUtf8From(bytes, i + 2)
           [] b = 224 ->
                /\ i + 1 <= Len(bytes) /\ InRange(bytes[i + 1], 160, 191)
                /\ IsCont(bytes, i + 2) /\ ValidUtf8From(bytes, i + 3)
           [] InRange(b, 225, 236) \/ InRange(b, 238, 239) ->
                IsCont(bytes, i + 1) /\ IsCont(bytes, i + 2) /\ ValidUtf8From(bytes, i + 3)
           [] b = 237 ->
                /\ i + 1 <= Len(bytes) /\ InRange(bytes[i + 1], 128, 159)
                /\ IsCont(bytes, i + 2) /\ ValidUtf8From(bytes, i + 3)
           [] b = 240 ->
                /\ i + 1 <= Len(bytes) /\ InRange(bytes[i + 1], 144, 191)
                /\ IsCont(bytes, i + 2) /\ IsCont(bytes, i + 3)
                /\ ValidUtf8From(bytes, i + 4)
           [] InRange(b, 241, 243) ->
                /\ IsCont(bytes, i + 1) /\ IsCont(bytes, i + 2) /\ IsCont(bytes, i + 3)
                /\ ValidUtf8From(bytes, i + 4)
           [] b = 244 ->
                /\ i + 1 <= Len(bytes) /\ InRange(bytes[i + 1], 128, 143)
                /\ IsCont(bytes, i + 2) /\ IsCont(bytes, i + 3)
                /\ ValidUtf8From(bytes, i + 4)
           [] OTHER -> FALSE

IsValidUtf8(bytes) == ValidUtf8From(bytes, 1)

\* String::from_utf8(bytes): Ok(the string) or Err
FromUtf8(bytes) ==
    IF IsValidUtf8(bytes) THEN [ok |-> TRUE, value |-> bytes]
    ELSE [ok |-> FALSE, value |-> <<>>]

\* Result::unwrap_or_default for String: the value, or String::default() = ""
UnwrapOrDefault(r) == IF r.ok THEN r.value ELSE <<>>

\* 0u64
ZeroU64 == <<0, 0, 0, 0, 0, 0, 0, 0>>

\* `n as u64` for a usize n of the model (n < 2^31)
UsizeAsU64(n) ==
    <<n % 256, (n \div 256) % 256, (n \div 65536) % 256, (n \div 16777216) % 256,
      0, 0, 0, 0>>

\* whether the u64 is below 2^31, the values a TLC integer holds
FitsInt(cell) ==
    /\ cell[4] < 128
    /\ \A k \in 5..8 : cell[k] = 0

\* the value of a u64 below 2^31
U64Value(cell) == cell[1] + 256 * cell[2] + 65536 * cell[3] + 16777216 * cell[4]

\* min(cell as usize, cap) for a small cap: all that `cell as usize` is used for
\* when it bounds a loop over at most cap items
U64AsUsizeCapped(cell, cap) ==
    IF FitsInt(cell) THEN Min(U64Value(cell), cap) ELSE cap

RECURSIVE ByteOr(_, _)
\* a | b on two bytes
ByteOr(a, b) ==
    IF a = 0 THEN b
    ELSE IF b = 0 THEN a
    ELSE Max(a % 2, b % 2) + 2 * ByteOr(a \div 2, b \div 2)

\* packed | ((byte as u64) << ((7 - i) * 8)): the first byte in the top bits
OrShiftedByte_BigEndian(packed, byte, i) == [packed EXCEPT ![8 - i] = ByteOr(@, byte)]

\* packed | ((byte as u64) << (i * 8)), 0 <= i < 8
OrShiftedByte(packed, byte, i) == [packed EXCEPT ![i + 1] = ByteOr(@, byte)]

\* ((packed >> (i * 8)) & 0xFF) as u8, 0 <= i < 8
ShiftedByte(packed, i) == packed[i + 1]

(***************************************************************************)
(* The string codec: EncodedString (src/src/encoding.rs).                  *)
(***************************************************************************)
RECURSIVE PackChunk(_, _, _)
\* the inner loop of EncodedString::from: packed |= byte << (i*8) for the
\* bytes of one chunk, from index i (0-based) on
PackChunk(chunk, i, packed) ==
    IF i >= Len(chunk) THEN packed
    ELSE PackChunk(chunk, i + 1, OrShiftedByte(packed, chunk[i + 1], i))

RECURSIVE Chunks8(_)
\* bytes.chunks(8): consecutive slices of 8 bytes, the last one shorter
Chunks8(bytes) ==
    IF Len(bytes) = 0 THEN <<>>
    ELSE IF Len(bytes) <= 8 THEN <<bytes>>
    ELSE <<SubSeq(bytes, 1, 8)>> \o Chunks8(SubSeq(bytes, 9, Len(bytes)))

\* impl From<&str> for EncodedString: the length, then the packed chunks
EncodedStringFrom(str) ==
    LET chunks == Chunks8(str)
    IN  <<UsizeAsU64(Len(str))>> \o [k \in 1..Len(chunks) |-> PackChunk(chunks[k], 0, ZeroU64)]

RECURSIVE UnpackCell_NoLengthStop(_, _, _, _)
\* UnpackCell without the `bytes.len() >= len` break: all 8 bytes of every cell
UnpackCell_NoLengthStop(packed, i, len, bytes) ==
    IF i >= 8 THEN bytes
    ELSE UnpackCell_NoLengthStop(packed, i + 1, len, Append(bytes, ShiftedByte(packed, i)))

RECURSIVE UnpackCell(_, _, _, _)
\* the inner loop of the decoder: for i in 0..8 { if bytes.len() >= len
\* { break; } bytes.push(byte i of packed) }
UnpackCell(packed, i, len, bytes) ==
    IF i >= 8 \/ Len(bytes) >= len THEN bytes
    ELSE UnpackCell(packed, i + 1, len, Append(bytes, ShiftedByte(packed, i)))

RECURSIVE UnpackCells(_, _, _, _)
\* the outer loop of the decoder: for &packed in encoded.0.iter().skip(1)
UnpackCells(cells, k, len, bytes) ==
    IF k > Len(cells) THEN bytes
    ELSE UnpackCells(cells, k + 1, len, UnpackCell(cells[k], 0, len, bytes))

\* the bytes the decoder hands to String::from_utf8
DecodedBytes(cells) ==
    LET len == U64AsUsizeCapped(cells[1], 8 * (Len(cells) - 1))
    IN  UnpackCells(cells, 2, len, <<>>)

\* impl From<EncodedString> for String
StringFromEncoded(cells) ==
    IF Len(cells) = 0 THEN <<>>
    ELSE UnwrapOrDefault(FromUtf8(DecodedBytes(cells)))

(***************************************************************************)
(* The record matrix: StringMatrix (src/src/encoding.rs).                  *)
(***************************************************************************)
RECURSIVE MaxOfSeq(_, _)
\* iter.max().unwrap_or(dflt) over a sequence of numbers
MaxOfSeq(nums, dflt) ==
    IF Len(nums) = 0 THEN dflt
    ELSE Max(nums[1], MaxOfSeq(Tail(nums), nums[1]))

\* StringMatrix::new writing matrix_data[i][j] = encoded[i][j]: a record per row
StringMatrixNew_RowPerRecord(strings) ==
    LET enc == [i \in 1..Len(strings) |-> EncodedStringFrom(strings[i])]
        max_len == MaxOfSeq([i \in 1..Len(enc) |-> Len(enc[i])], 0)
        matrix_size == Max(Len(strings), max_len)
        matrix_data ==
            [i \in 1..matrix_size |->
                [j \in 1..matrix_size |->
                    IF i <= Len(enc) /\ j <= Len(enc[i]) THEN enc[i][j] ELSE ZeroU64]]
    IN  [data |-> matrix_data, num_strings |-> Len(strings)]

\* StringMatrix::new: a square matrix of side max(strings.len(), max_len),
\* zero but for matrix_data[j][i] = encoded[i][j]
StringMatrixNew(strings) ==
    LET enc == [i \in 1..Len(strings) |-> EncodedStringFrom(strings[i])]
        max_len == MaxOfSeq([i \in 1..Len(enc) |-> Len(enc[i])], 0)
        matrix_size == Max(Len(strings), max_len)
        matrix_data ==
            [j \in 1..matrix_size |->
                [i \in 1..matrix_size |->
                    IF i <= Len(enc) /\ j <= Len(enc[i]) THEN enc[i][j] ELSE ZeroU64]]
    IN  [data |-> matrix_data, num_strings |-> Len(strings)]

\* what stands for a String when the code panics instead of returning one
Panicked == <<-1>>

\* column i (1-based) of the first `rows` rows: data[..rows].iter().map(|row| row[i])
ColumnPrefix(data, i, rows) == [j \in 1..rows |-> data[j][i]]

\* MatrixColumnString with packed_size = len / 8, rounded down
MatrixColumnString_FloorDiv(matrix, i) ==
    LET len == U64Value(matrix.data[1][i])
        packed_size == len \div 8
    IN  IF len > 0
        THEN IF packed_size + 1 > Len(matrix.data) THEN Panicked
             ELSE StringFromEncoded(ColumnPrefix(matrix.data, i, packed_size + 1))
        ELSE <<>>

\* one iteration of impl From<StringMatrix> for Vec<String>: the string of
\* column i, or Panicked when the slice data[..=packed_size] is out of range
MatrixColumnString(matrix, i) ==
    LET len == U64Value(matrix.data[1][i])
        packed_size == (len + 7) \div 8
    IN  IF len > 0
        THEN IF packed_size + 1 > Len(matrix.data) THEN Panicked
             ELSE StringFromEncoded(ColumnPrefix(matrix.data, i, packed_size + 1))
        ELSE <<>>

\* impl From<StringMatrix> for Vec<String>
VecStringFromMatrix(matrix) ==
    [i \in 1..matrix.num_strings |-> MatrixColumnString(matrix, i)]

(***************************************************************************)
(* u64 arithmetic, wrapping (modulo 2^64), on the 8-byte representation.   *)
(***************************************************************************)
RECURSIVE Pow2(_)
Pow2(k) == IF k = 0 THEN 1 ELSE 2 * Pow2(k - 1)

\* 1u64 << k
U64Pow2(k) == [i \in 1..8 |-> IF i = (k \div 8) + 1 THEN Pow2(k % 8) ELSE 0]

\* bit b (0 = least significant) of a u64
U64Bit(w, b) == (w[(b \div 8) + 1] \div Pow2(b % 8)) % 2

\* whether w < 2^k
U64BelowPow2(w, k) == \A b \in k..63 : U64Bit(w, b) = 0

RECURSIVE CarryNormalize(_, _, _)
\* the 8 bytes of the number whose base-256 digits (least significant first,
\* each possibly above 255) are cols[k..], plus carry; bits beyond 2^64 drop
CarryNormalize(cols, k, carry) ==
    IF k > 8 THEN <<>>
    ELSE LET v == cols[k] + carry
         IN  <<v % 256>> \o CarryNormalize(cols, k + 1, v \div 256)

\* a.wrapping_add(b)
U64Add(a, b) == CarryNormalize([k \in 1..8 |-> a[k] + b[k]], 1, 0)

\* a.wrapping_neg()
U64Neg(a) == U64Add([k \in 1..8 |-> 255 - a[k]], U64Pow2(0))

\* a.wrapping_sub(b)
U64Sub(a, b) == U64Add(a, U64Neg(b))

RECURSIVE SumTo(_, _)
\* f[1] + ... + f[n]
SumTo(f, n) == IF n = 0 THEN 0 ELSE f[n] + SumTo(f, n - 1)

\* a.wrapping_mul(b): schoolbook, column k sums a[i] * b[k+1-i]
U64Mul(a, b) ==
    CarryNormalize([k \in 1..8 |-> SumTo([i \in 1..k |-> a[i] * b[k + 1 - i]], k)], 1, 0)

RECURSIVE U64Sum(_)
\* the wrapping sum of a sequence of u64
U64Sum(ws) == IF Len(ws) = 0 THEN ZeroU64 ELSE U64Add(ws[1], U64Sum(Tail(ws)))

\* (w >> k) as an integer, for k >= 34 (the result is below 2^30)
U64ShrValue(w, k) == SumTo([i \in 1..(64 - k) |-> U64Bit(w, k + i - 1) * Pow2(i - 1)], 64 - k)

\* matrix * vector and matrix * matrix over u64, wrapping
MatVec(M, v) ==
    [r \in 1..Len(M) |-> U64Sum([c \in 1..Len(v) |-> U64Mul(M[r][c], v[c])])]

MatMul(M, K, cols) ==
    [r \in 1..Len(M) |->
        [c \in 1..cols |-> U64Sum([k \in 1..Len(K) |-> U64Mul(M[r][k], K[k][c])])]]

(***************************************************************************)
(* The SimplePIR engine the source calls (crate simplepir: Database,       *)
(* setup, query, answer, recover_row), after sections 3 and 4.3 of the     *)
(* specification.  Ciphertexts are the u64 cells the source passes around: *)
(* the ciphertext modulus is 2^CIPHER_BITS and Delta = 2^(64 - MOD_POWER). *)
(***************************************************************************)
\* Delta = q / p for p = 2^mod_power
Delta(mod_power) == U64Pow2(CIPHER_BITS - mod_power)

PrgMul == <<45, 127, 149, 76, 45, 244, 81, 88>>
PrgInc == <<79, 129, 103, 247, 126, 123, 5, 20>>

RECURSIVE Prg(_, _)
\* the k-th output of the seeded generator that materialises A
Prg(seed, k) ==
    IF k = 0 THEN seed ELSE U64Add(U64Mul(Prg(seed, k - 1), PrgMul), PrgInc)

\* gen_public(seed, rows, n): the public LWE matrix A, rows x n
GenPublic(seed, rows, n) ==
    [r \in 1..rows |-> [c \in 1..n |-> Prg(seed, (r - 1) * n + c)]]

\* Database::from_matrix(matrix, mod_power)
DatabaseFromMatrix(data, mod_power) == [data |-> data, mod_power |-> mod_power]

\* db.side_len()
SideLen(db) == Len(db.data)

\* setup(&db, n) with the seed it samples: (server_hint, client_hint = D * A)
PirSetup(db, n, seed) ==
    [server_hint |-> seed,
     client_hint |-> MatMul(db.data, GenPublic(seed, SideLen(db), n), n)]

\* the encryption A*s + e + Delta*x of the plaintext vector x (entries below p)
Encrypt(s, A, e, x, mod_power) ==
    LET As == MatVec(A, s)
    IN  [j \in 1..Len(A) |->
            U64Add(U64Add(As[j], e[j]), U64Mul(Delta(mod_power), UsizeAsU64(x[j])))]

\* the one-hot indicator of index i (0-based) of length len
OneHot(i, len) == [j \in 1..len |-> IF j = i + 1 THEN 1 ELSE 0]

\* query(i, db_side_len, n, server_hint, p) with the secret s and the error e
\* it samples: (client_state, query_cipher)
PirQuery(i, side, n, server_hint, mod_power, s, e) ==
    [client_state |-> [secret |-> s, index |-> i],
     query_cipher |-> Encrypt(s, GenPublic(server_hint, side, n), e, OneHot(i, side), mod_power)]

\* answer(&db, &query_cipher) = D * u
PirAnswer(db, query_cipher) == MatVec(db.data, query_cipher)

\* round(y * p / q) mod p, ties toward zero, as an integer below p
RoundToPlain(y, mod_power) ==
    U64ShrValue(U64Add(y, U64Sub(U64Pow2(CIPHER_BITS - mod_power - 1), U64Pow2(0))),
                CIPHER_BITS - mod_power)

\* recover_row(&client_state, &client_hint, &answer, &query_cipher, p): every
\* coordinate of answer - client_hint * s, rounded to a plaintext
RecoverRow(client_state, client_hint, answer, mod_power) ==
    LET Hs == MatVec(client_hint, client_state.secret)
    IN  [j \in 1..Len(answer) |->
            UsizeAsU64(RoundToPlain(U64Sub(answer[j], Hs[j]), mod_power))]

(***************************************************************************)
(* State.                                                                  *)
(***************************************************************************)
VARIABLES
    codec_pc,     \* codec: "start", "encoded" or "decoded"
    original,     \* codec: the &str handed to EncodedString::from
    encoded,      \* codec: the EncodedString (its Vec<u64>)
    decoded,      \* codec: the String decoded from it
    mx_pc,        \* matrix: "start", "built" or "decoded"
    mx_original,  \* matrix: the Vec<String> handed to StringMatrix::new
    mx_matrix,    \* matrix: the StringMatrix {data, num_strings}
    mx_decoded,   \* matrix: the Vec<String> converted back from it
    tp_pc,            \* text round: "start", "built", "ready", "queried",
                      \*   "answered", "recovered" or "decoded"
    tp_texts,         \* text round: the records (texts: &[String])
    tp_db,            \* text round: the text Database {data, mod_power}
    tp_server_hint,   \* text round: server_hint of setup
    tp_client_hint,   \* text round: client_hint of setup
    tp_index,         \* text round: the index queried
    tp_client_state,  \* text round: client_state of query {secret, index}
    tp_query_cipher,  \* text round: query_cipher of query
    tp_answer_cipher, \* text round: answer_cipher of answer
    tp_record,        \* text round: record.data of recover_row
    tp_decoded,       \* text round: the String decoded from the record
    emb_pc,        \* embedding matrix: "start" or "done"
    emb_texts,     \* embedding matrix: texts: &[String]
    emb_embedder,  \* embedding matrix: what embedder.embed returns per text
    emb_result,    \* embedding matrix: the outcome of strings_to_embedding_matrix
    cl_pc,         \* client: "start", "queried", "answered", "recovered",
                   \*   "selected" or "round2"
    cl_variant,    \* client: "Client", "NetworkClient" or "main"
    cl_records,    \* client: the number R of records of the embedding database
    cl_db,         \* client: the embedding database (server side)
    cl_a,          \* client: the public matrix A of the embedding database
    cl_hint,       \* client: the hint D * A of the embedding database
    cl_v,          \* client: the quantised query embedding
    cl_secret,     \* client: the round-1 LWE secret
    cl_query,      \* client: the round-1 ciphertext sent
    cl_answer,     \* client: the round-1 answer as received
    cl_scores,     \* client: the scores recovered from it (<<>>: none)
    cl_index,      \* client: the index selected
    cl_round2,      \* client: the round-2 plaintext query (<<>>: not issued)
    bs_updates,  \* bin server: calls of update_market_data so far
    bs_market,  \* bin server: last_update, the stamp of the market data held
    bs_tasks,  \* bin server: the texts of the build tasks spawned and not finished
    bs_db_state,  \* bin server: db_state, Option<DatabaseState>
    bs_done,  \* bin server: the texts and the outcome of the last build finished
    bs_fetches,  \* bin server: for each build task not finished, the call that fetched its texts
    bs_built_from,  \* bin server: the call that fetched the texts db_state was built from, 0 for None
    ns_db,  \* net server: the SimplePirDatabase, each field as the epoch it is of
    ns_lock,  \* net server: the RwLock of ServerState, "free" or "write"
    ns_updater,  \* net server: the update task, "waiting", "first", "second" or "dead"
    ns_ticks,  \* net server: interval ticks so far
    ns_log,  \* net server: the outcome of the last db.update()
    nc_pc,  \* net client: "ready", "waiting", "done" or "failed"
    nc_step,  \* net client: which request of the round is next, 1..4
    nc_req,  \* net client: the request in flight
    nc_seen,  \* net client: the epoch of what each request returned
    nc_response,  \* net client: the last response, "none", "ok" or "panic"
    cu_pc,  \* client update: "ready", "encoding_done" or "panicked"
    cu_calls,  \* client update: calls of Client::update so far
    cu_corpus,  \* client update: the records the script returns at the moment
    cu_encoding,  \* client update: the records encoding_db was built from
    cu_embedding,  \* client update: the records embedding_db was built from
    cu_result,  \* client update: what the last Client::update returned
    qy_pc,  \* client query: where the call of Client::query or query_top_k is
    qy_fn,  \* client query: the function called, query or query_top_k
    qy_k,  \* client query: k of query_top_k
    qy_embedding,  \* client query: what embed_text returns for the query text
    qy_m_encoding,  \* client query: encoding_db.params().m
    qy_scores,  \* client query: result_embedding, what round 1 recovers; its length is m of the embedding database
    qy_drawn,  \* client query: the secrets generate_query has drawn so far
    qy_requests,  \* client query: the queries passed to respond, in order
    qy_recovers,  \* client query: the calls of recover, in order
    qy_todo,  \* client query: the selected indices not fetched yet
    qy_result,  \* client query: what the call returned
    nu_pc,  \* network update: where the call of NetworkClient::update is
    nu_calls,  \* network update: calls of NetworkClient::update so far
    nu_epoch,  \* network update: per server, the updates its own update task has performed
    nu_reached,  \* network update: per server, whether a request of the current call has run handle_update
    nu_status,  \* network update: per server, the status of the last response to POST /update
    nu_result  \* network update: what the last call of NetworkClient::update returned

codecVars == <<codec_pc, original, encoded, decoded>>
matrixVars == <<mx_pc, mx_original, mx_matrix, mx_decoded>>
textPirVars ==
    <<tp_pc, tp_texts, tp_db, tp_server_hint, tp_client_hint, tp_index,
      tp_client_state, tp_query_cipher, tp_answer_cipher, tp_record, tp_decoded>>
embedVars == <<emb_pc, emb_texts, emb_embedder, emb_result>>
clientVars ==
    <<cl_pc, cl_variant, cl_records, cl_db, cl_a, cl_hint, cl_v, cl_secret,
      cl_query, cl_answer, cl_scores, cl_index, cl_round2>>
binServerVars ==
    <<bs_updates, bs_market, bs_tasks, bs_db_state, bs_done, bs_fetches, bs_built_from>>
netServerVars == <<ns_db, ns_lock, ns_updater, ns_ticks, ns_log, nc_pc, nc_step, nc_req, nc_seen, nc_response>>
clientUpdateVars == <<cu_pc, cu_calls, cu_corpus, cu_encoding, cu_embedding, cu_result>>
queryVars == <<qy_pc, qy_fn, qy_k, qy_embedding, qy_m_encoding, qy_scores, qy_drawn, qy_requests, qy_recovers, qy_todo, qy_result>>
netUpdateVars == <<nu_pc, nu_calls, nu_epoch, nu_reached, nu_status, nu_result>>
vars == <<codecVars, matrixVars, textPirVars, embedVars, clientVars, binServerVars, netServerVars, clientUpdateVars, queryVars, netUpdateVars>>

\* what each specification leaves alone: the state of the others
notCodecVars == <<matrixVars, textPirVars, embedVars, clientVars, binServerVars, netServerVars, clientUpdateVars, queryVars, netUpdateVars>>
notMatrixVars == <<codecVars, textPirVars, embedVars, clientVars, binServerVars, netServerVars, clientUpdateVars, queryVars, netUpdateVars>>
notTextPirVars == <<codecVars, matrixVars, embedVars, clientVars, binServerVars, netServerVars, clientUpdateVars, queryVars, netUpdateVars>>
notEmbedVars == <<codecVars, matrixVars, textPirVars, clientVars, binServerVars, netServerVars, clientUpdateVars, queryVars, netUpdateVars>>
notClientVars == <<codecVars, matrixVars, textPirVars, embedVars, binServerVars, netServerVars, clientUpdateVars, queryVars, netUpdateVars>>
notBinServerVars == <<codecVars, matrixVars, textPirVars, embedVars, clientVars, netServerVars, clientUpdateVars, queryVars, netUpdateVars>>
notNetServerVars == <<codecVars, matrixVars, textPirVars, embedVars, clientVars, binServerVars, clientUpdateVars, queryVars, netUpdateVars>>
notClientUpdateVars == <<codecVars, matrixVars, textPirVars, embedVars, clientVars, binServerVars, netServerVars, queryVars, netUpdateVars>>
notQueryVars == <<codecVars, matrixVars, textPirVars, embedVars, clientVars, binServerVars, netServerVars, clientUpdateVars, netUpdateVars>>
notNetUpdateVars == <<codecVars, matrixVars, textPirVars, embedVars, clientVars, binServerVars, netServerVars, clientUpdateVars, queryVars>>

CodecIdle == codec_pc = "idle" /\ original = <<>> /\ encoded = <<>> /\ decoded = <<>>

NoMatrix == [data |-> <<>>, num_strings |-> 0]

MatrixIdle ==
    mx_pc = "idle" /\ mx_original = <<>> /\ mx_matrix = NoMatrix /\ mx_decoded = <<>>

NoDatabase == [data |-> <<>>, mod_power |-> 0]
NoClientState == [secret |-> <<>>, index |-> 0]

TextPirIdle ==
    /\ tp_pc = "idle" /\ tp_texts = <<>> /\ tp_db = NoDatabase
    /\ tp_server_hint = ZeroU64 /\ tp_client_hint = <<>> /\ tp_index = 0
    /\ tp_client_state = NoClientState /\ tp_query_cipher = <<>>
    /\ tp_answer_cipher = <<>> /\ tp_record = <<>> /\ tp_decoded = <<>>

\* the outcome of a call that has not been made
NoResult == [kind |-> "none", data |-> <<>>]

EmbedIdle ==
    emb_pc = "idle" /\ emb_texts = <<>> /\ emb_embedder = <<>> /\ emb_result = NoResult

ClientIdle ==
    /\ cl_pc = "idle" /\ cl_variant = "none" /\ cl_records = 0 /\ cl_db = NoDatabase
    /\ cl_a = <<>> /\ cl_hint = <<>> /\ cl_v = <<>> /\ cl_secret = <<>>
    /\ cl_query = <<>> /\ cl_answer = <<>> /\ cl_scores = <<>> /\ cl_index = 0
    /\ cl_round2 = <<>>

\* db_state before anything is published: None
NoState == [kind |-> "None"]

\* no build has finished
NoBuild == [texts |-> <<>>, outcome |-> "none"]

\* the server of bin/server.rs is not running: no call of update_market_data
\* is left and no build is in flight
BinServerIdle ==
    /\ bs_updates = MaxUpdates /\ bs_market = 0 /\ bs_tasks = <<>> /\ bs_db_state = NoState
    /\ bs_done = NoBuild
    /\ bs_fetches = <<>>
    /\ bs_built_from = 0

\* SimplePirDatabase::new(DMatrix::zeros(1, 1)): data of epoch 0, and
\* params, hint and a None (0)
NewSimplePirDatabase == [data |-> 0, params |-> 0, hint |-> 0, a |-> 0]

\* no request in flight
NoRequest == [kind |-> "none", body |-> "none", stage |-> "none"]

\* nothing returned yet
NothingSeen == [params |-> 0, a |-> 0, query |-> 0, hint |-> 0]

NetServerIdle ==
    /\ ns_db = NewSimplePirDatabase /\ ns_lock = "free" /\ ns_updater = "idle"
    /\ ns_ticks = 0 /\ ns_log = "none" /\ nc_pc = "idle" /\ nc_step = 1
    /\ nc_req = NoRequest /\ nc_seen = NothingSeen /\ nc_response = "none"

ClientUpdateIdle ==
    /\ cu_pc = "idle" /\ cu_calls = 0 /\ cu_corpus = <<>> /\ cu_encoding = <<>>
    /\ cu_embedding = <<>> /\ cu_result = "none"

\* no call of Client::query or Client::query_top_k is under way
NoCallResult == [kind |-> "none"]

QueryIdle ==
    /\ qy_pc = "idle" /\ qy_fn = "none" /\ qy_k = 0 /\ qy_embedding = <<>>
    /\ qy_m_encoding = 0 /\ qy_scores = <<>> /\ qy_drawn = 0 /\ qy_requests = <<>>
    /\ qy_recovers = <<>> /\ qy_todo = <<>> /\ qy_result = NoCallResult

\* the two servers of a NetworkClient, encoding_db first as update() calls them
RemoteServers == <<"encoding", "embedding">>

\* no NetworkClient is running: no call of update is left
NetUpdateIdle ==
    /\ nu_pc = "idle" /\ nu_calls = 0
    /\ nu_epoch = [s \in {"encoding", "embedding"} |-> 0]
    /\ nu_reached = [s \in {"encoding", "embedding"} |-> FALSE]
    /\ nu_status = [s \in {"encoding", "embedding"} |-> 0]
    /\ nu_result = "none"

(***************************************************************************)
(* The codec specification: encoding.rs tests test_string_conversion,      *)
(* test_long_string, test_empty_string over every valid string.            *)
(***************************************************************************)
\* the &str values of the model: well-formed UTF-8 up to MaxLen bytes
Utf8Strings == {b \in StringsUpTo(MaxLen) : IsValidUtf8(b)}

InitCodec ==
    /\ codec_pc = "start"
    /\ original \in Utf8Strings
    /\ encoded = <<>>
    /\ decoded = <<>>
    /\ MatrixIdle
    /\ TextPirIdle
    /\ EmbedIdle
    /\ ClientIdle
    /\ BinServerIdle
    /\ NetServerIdle
    /\ ClientUpdateIdle
    /\ QueryIdle
    /\ NetUpdateIdle

\* let encoded: EncodedString = original.into();
Encode ==
    /\ codec_pc = "start"
    /\ encoded' = EncodedStringFrom(original)
    /\ codec_pc' = "encoded"
    /\ UNCHANGED <<original, decoded>>
    /\ UNCHANGED notCodecVars

\* let decoded: String = encoded.into();
Decode ==
    /\ codec_pc = "encoded"
    /\ decoded' = StringFromEncoded(encoded)
    /\ codec_pc' = "decoded"
    /\ UNCHANGED <<original, encoded>>
    /\ UNCHANGED notCodecVars

NextCodec == Encode \/ Decode

SpecCodec == InitCodec /\ [][NextCodec]_vars

(***************************************************************************)
(* The matrix specification: encoding.rs test_matrix_conversion over every *)
(* list of at most MaxRecords records of the pool.                         *)
(***************************************************************************)
Rep(byte, n) == [k \in 1..n |-> byte]

\* The records lists are made of: "", "A", "A\u{e9}" (3 bytes), a string of 8
\* bytes (one full cell), one of 9 bytes and one of 17 bytes (3 packed cells).
RecordPool ==
    {<<>>, <<65>>, <<65, 195, 169>>, Rep(65, 8), Rep(65, 7) \o <<195, 169>>,
     Rep(65, 15) \o <<195, 169>>}

RECURSIVE ListsUpTo(_, _)
\* every list of at most n elements of S
ListsUpTo(S, n) ==
    IF n = 0 THEN {<<>>}
    ELSE LET shorter == ListsUpTo(S, n - 1)
         IN  shorter \cup
             {Append(x[1], x[2]) : x \in {y \in shorter \X S : Len(y[1]) = n - 1}}

InitMatrix ==
    /\ mx_pc = "start"
    /\ mx_original \in ListsUpTo(RecordPool, MaxRecords)
    /\ mx_matrix = NoMatrix
    /\ mx_decoded = <<>>
    /\ CodecIdle
    /\ TextPirIdle
    /\ EmbedIdle
    /\ ClientIdle
    /\ BinServerIdle
    /\ NetServerIdle
    /\ ClientUpdateIdle
    /\ QueryIdle
    /\ NetUpdateIdle

\* let matrix = StringMatrix::new(&original);
MatrixNew ==
    /\ mx_pc = "start"
    /\ mx_matrix' = StringMatrixNew(mx_original)
    /\ mx_pc' = "built"
    /\ UNCHANGED <<mx_original, mx_decoded>>
    /\ UNCHANGED notMatrixVars

\* let decoded: Vec<String> = matrix.into();
MatrixInto ==
    /\ mx_pc = "built"
    /\ mx_decoded' = VecStringFromMatrix(mx_matrix)
    /\ mx_pc' = "decoded"
    /\ UNCHANGED <<mx_original, mx_matrix>>
    /\ UNCHANGED notMatrixVars

NextMatrix == MatrixNew \/ MatrixInto

SpecMatrix == InitMatrix /\ [][NextMatrix]_vars

(***************************************************************************)
(* The text-round specification: the text database of build_databases      *)
(* (src/src/bin/server.rs) queried as lib.rs test_e2e_encoding and         *)
(* src/src/bin/client.rs do: StringMatrix::new, Database::from_matrix,     *)
(* setup, then per index query, answer, recover_row and the decoding of    *)
(* the recovered column.                                                   *)
(***************************************************************************)
\* The records of the text round: "", "A", U+00E9 (2 bytes, a cell below
\* 2^17) and "A\u{e9}" (3 bytes).
PirPool == {<<>>, <<65>>, <<195, 169>>, <<65, 195, 169>>}

\* the seeds setup may sample, the values a secret coordinate may take, and
\* the values an error coordinate may take (0, 1, -1)
Seeds == {UsizeAsU64(1), PrgMul}
SecretValues == {UsizeAsU64(1), PrgInc}
ErrorValues == {ZeroU64, UsizeAsU64(1), U64Neg(UsizeAsU64(1))}

\* every vector of length n over S
Vectors(S, n) == {v \in ListsUpTo(S, n) : Len(v) = n}

InitTextPir ==
    /\ tp_pc = "start"
    /\ tp_texts \in (ListsUpTo(PirPool, MaxPirRecords) \ {<<>>})
    /\ tp_db = NoDatabase
    /\ tp_server_hint = ZeroU64 /\ tp_client_hint = <<>> /\ tp_index = 0
    /\ tp_client_state = NoClientState /\ tp_query_cipher = <<>>
    /\ tp_answer_cipher = <<>> /\ tp_record = <<>> /\ tp_decoded = <<>>
    /\ CodecIdle
    /\ MatrixIdle
    /\ EmbedIdle
    /\ ClientIdle
    /\ BinServerIdle
    /\ NetServerIdle
    /\ ClientUpdateIdle
    /\ QueryIdle
    /\ NetUpdateIdle

\* let encoded = StringMatrix::new(texts);
\* let text_db = Database::from_matrix(encoded.data, MOD_POWER as u8)
BuildTextDb ==
    /\ tp_pc = "start"
    /\ tp_db' = DatabaseFromMatrix(StringMatrixNew(tp_texts).data, MOD_POWER)
    /\ tp_pc' = "built"
    /\ UNCHANGED <<tp_texts, tp_server_hint, tp_client_hint, tp_index, tp_client_state,
                   tp_query_cipher, tp_answer_cipher, tp_record, tp_decoded>>
    /\ UNCHANGED notTextPirVars

\* let (server_hint_txt, client_hint_txt) = setup(&text_db, SECRET_DIMENSION);
SetupTextDb ==
    /\ tp_pc = "built"
    /\ \E seed \in Seeds :
         LET hints == PirSetup(tp_db, SecretDim, seed)
         IN  /\ tp_server_hint' = hints.server_hint
             /\ tp_client_hint' = hints.client_hint
    /\ tp_pc' = "ready"
    /\ UNCHANGED <<tp_texts, tp_db, tp_index, tp_client_state, tp_query_cipher,
                   tp_answer_cipher, tp_record, tp_decoded>>
    /\ UNCHANGED notTextPirVars

\* let (client_state, query_cipher) =
\*     query(index, db_side_len, SECRET_DIMENSION, server_hint, PLAIN_MOD);
QueryText ==
    /\ tp_pc = "ready"
    /\ \E index \in 0..(Len(tp_texts) - 1) :
       \E s \in Vectors(SecretValues, SecretDim) :
       \E e \in Vectors(ErrorValues, SideLen(tp_db)) :
         LET q == PirQuery(index, SideLen(tp_db), SecretDim, tp_server_hint, MOD_POWER, s, e)
         IN  /\ tp_index' = index
             /\ tp_client_state' = q.client_state
             /\ tp_query_cipher' = q.query_cipher
    /\ tp_pc' = "queried"
    /\ UNCHANGED <<tp_texts, tp_db, tp_server_hint, tp_client_hint, tp_answer_cipher,
                   tp_record, tp_decoded>>
    /\ UNCHANGED notTextPirVars

\* let answer_cipher = answer(&compressed_db, &query_cipher);
AnswerText ==
    /\ tp_pc = "queried"
    /\ tp_answer_cipher' = PirAnswer(tp_db, tp_query_cipher)
    /\ tp_pc' = "answered"
    /\ UNCHANGED <<tp_texts, tp_db, tp_server_hint, tp_client_hint, tp_index,
                   tp_client_state, tp_query_cipher, tp_record, tp_decoded>>
    /\ UNCHANGED notTextPirVars

\* let record = recover_row(&client_state, &client_hint, &answer_cipher,
\*                          &query_cipher, PLAIN_MOD);
RecoverText ==
    /\ tp_pc = "answered"
    /\ tp_record' = RecoverRow(tp_client_state, tp_client_hint, tp_answer_cipher, MOD_POWER)
    /\ tp_pc' = "recovered"
    /\ UNCHANGED <<tp_texts, tp_db, tp_server_hint, tp_client_hint, tp_index,
                   tp_client_state, tp_query_cipher, tp_answer_cipher, tp_decoded>>
    /\ UNCHANGED notTextPirVars

\* let encoded = EncodedString(record.data); let decoded: String = encoded.into();
DecodeText ==
    /\ tp_pc = "recovered"
    /\ tp_decoded' = StringFromEncoded(tp_record)
    /\ tp_pc' = "decoded"
    /\ UNCHANGED <<tp_texts, tp_db, tp_server_hint, tp_client_hint, tp_index,
                   tp_client_state, tp_query_cipher, tp_answer_cipher, tp_record>>
    /\ UNCHANGED notTextPirVars

NextTextPir ==
    \/ BuildTextDb
    \/ SetupTextDb
    \/ QueryText
    \/ AnswerText
    \/ RecoverText
    \/ DecodeText

SpecTextPir == InitTextPir /\ [][NextTextPir]_vars

\* the column of the record queried, as the text database holds it
QueriedColumn == [j \in 1..SideLen(tp_db) |-> tp_db.data[j][tp_index + 1]]

\* every cell of the text database is a plaintext: below 2^MOD_POWER
CellsArePlaintexts ==
    \A j \in 1..SideLen(tp_db) : \A c \in 1..SideLen(tp_db) :
        U64BelowPow2(tp_db.data[j][c], MOD_POWER)

\* The engine as modelled recovers the queried column of a database whose
\* cells are plaintexts, whatever the seed, the secret and the error.
RecoversPlaintextColumns ==
    (tp_pc \in {"recovered", "decoded"} /\ CellsArePlaintexts) =>
        /\ tp_record = QueriedColumn
        /\ tp_pc = "decoded" => tp_decoded = tp_texts[tp_index + 1]

(***************************************************************************)
(* The embedding matrix: strings_to_embedding_matrix (src/src/utils.rs).   *)
(* An f32 coordinate is the rational k / F32Unit for an integer k; the     *)
(* embedder (a BERT model outside the crate) is any function from texts to *)
(* vectors of EmbSide coordinates, or to a failure.                        *)
(***************************************************************************)
\* the denominator of the model's f32 values: halves of 1 / SCALE_FACTOR
F32Unit == 2 * SCALE_FACTOR

\* f32::round of the rational n / d (d > 0): nearest, halves away from zero
F32Round(n, d) ==
    IF n >= 0 THEN (2 * n + d) \div (2 * d) ELSE 0 - ((2 * (0 - n) + d) \div (2 * d))

\* `x as u64` of an integral f32: saturating, so every negative value is 0
F32AsU64(r) == IF r < 0 THEN 0 ELSE r

\* (val * SCALE_FACTOR).round() as u64, for val = k / F32Unit, as an integer
QuantiseValue(k) == F32AsU64(F32Round(k * SCALE_FACTOR, F32Unit))

\* (val * SCALE_FACTOR).round() as u64
Quantise(k) == UsizeAsU64(QuantiseValue(k))

\* the coordinates of the model: -0.015 (stored as 0), 0.005 (a half, rounded
\* up to 1) and 0.02 (stored as 2)
Coordinates == {-3, 1, 4}

\* the texts that are embedded: "A" and "B"
EmbTexts == {<<65>>, <<66>>}

\* what embed returns for a text it fails on
EmbedFailed == <<>>

\* the embedders over the coordinates V: one embedding of length EmbSide per text
EmbeddersOver(V) == [EmbTexts -> [1..EmbSide -> V]]

\* the embedders of the model, those that fail on a text included
Embedders == [EmbTexts -> ([1..EmbSide -> Coordinates] \cup {EmbedFailed})]

\* strings_to_embedding_matrix without the texts.is_empty() bail
StringsToEmbeddingMatrix_NoEmptyCheck(texts, embedder) ==
    IF \E i \in 1..Len(texts) : embedder[texts[i]] = EmbedFailed
    THEN [kind |-> "err", data |-> <<>>]
    ELSE IF Len(texts) > EmbSide THEN [kind |-> "panic", data |-> <<>>]
    ELSE [kind |-> "ok",
          data |-> [j \in 1..EmbSide |->
                      [i \in 1..EmbSide |->
                          IF i <= Len(texts) THEN Quantise(embedder[texts[i]][j])
                          ELSE ZeroU64]]]

\* strings_to_embedding_matrix writing matrix_data[i][j]: a record per row
StringsToEmbeddingMatrix_RowPerRecord(texts, embedder) ==
    IF Len(texts) = 0 THEN [kind |-> "err", data |-> <<>>]
    ELSE IF \E i \in 1..Len(texts) : embedder[texts[i]] = EmbedFailed
         THEN [kind |-> "err", data |-> <<>>]
    ELSE IF Len(texts) > EmbSide THEN [kind |-> "panic", data |-> <<>>]
    ELSE [kind |-> "ok",
          data |-> [i \in 1..EmbSide |->
                      [j \in 1..EmbSide |->
                          IF i <= Len(texts) THEN Quantise(embedder[texts[i]][j])
                          ELSE ZeroU64]]]

\* strings_to_embedding_matrix(texts, embedder): Err for no texts or a failed
\* embed, a panic (index out of bounds in matrix_data[j][i]) for more texts
\* than the matrix has columns, else the matrix with
\* matrix_data[j][i] = quantised coordinate j of text i
StringsToEmbeddingMatrix(texts, embedder) ==
    IF Len(texts) = 0 THEN [kind |-> "err", data |-> <<>>]
    ELSE IF \E i \in 1..Len(texts) : embedder[texts[i]] = EmbedFailed
         THEN [kind |-> "err", data |-> <<>>]
    ELSE IF Len(texts) > EmbSide THEN [kind |-> "panic", data |-> <<>>]
    ELSE [kind |-> "ok",
          data |-> [j \in 1..EmbSide |->
                      [i \in 1..EmbSide |->
                          IF i <= Len(texts) THEN Quantise(embedder[texts[i]][j])
                          ELSE ZeroU64]]]

\* record lists of the embedding specification: up to one more than fits
MaxEmbRecords == EmbSide + 1

InitEmbed ==
    /\ emb_pc = "start"
    /\ emb_texts \in ListsUpTo(EmbTexts, MaxEmbRecords)
    /\ emb_embedder \in Embedders
    /\ emb_result = NoResult
    /\ CodecIdle
    /\ MatrixIdle
    /\ TextPirIdle
    /\ ClientIdle
    /\ BinServerIdle
    /\ NetServerIdle
    /\ ClientUpdateIdle
    /\ QueryIdle
    /\ NetUpdateIdle

\* let matrix = strings_to_embedding_matrix(&texts, &embedder)
BuildEmbeddingMatrix ==
    /\ emb_pc = "start"
    /\ emb_result' = StringsToEmbeddingMatrix(emb_texts, emb_embedder)
    /\ emb_pc' = "done"
    /\ UNCHANGED <<emb_texts, emb_embedder>>
    /\ UNCHANGED notEmbedVars

NextEmbed == BuildEmbeddingMatrix

SpecEmbed == InitEmbed /\ [][NextEmbed]_vars

(***************************************************************************)
(* The two-round client: Client::query (src/src/client.rs),                *)
(* NetworkClient::query (src/src/network.rs) and main of                   *)
(* src/src/bin/client.rs, up to the moment round 2 is issued, against an   *)
(* embedding database built by strings_to_embedding_matrix and answered by *)
(* SimplePirDatabase::respond (src/src/server.rs).                         *)
(***************************************************************************)
\* a < b for u64
U64Less(a, b) ==
    \E k \in 1..8 : a[k] < b[k] /\ \A m \in (k + 1)..8 : a[m] = b[m]

\* w mod 2^k
U64ModPow2(w, k) ==
    [i \in 1..8 |->
        IF 8 * i <= k THEN w[i]
        ELSE IF 8 * (i - 1) >= k THEN 0
        ELSE w[i] % Pow2(k - 8 * (i - 1))]

\* iter().enumerate().max_by_key(|(_i, val)| val.clone()).map(|(i, _)| i):
\* the index (0-based) of the maximum; of several equal maxima, the last
MaxByKeyIndex(values) ==
    (CHOOSE i \in 1..Len(values) :
        /\ \A k \in 1..Len(values) : ~U64Less(values[i], values[k])
        /\ \A k \in (i + 1)..Len(values) : values[k] # values[i]) - 1

\* find_closest_index(&embedding_answer): the index of the maximum, the first
\* of several equal maxima
FindClosestIndex(values) ==
    (CHOOSE i \in 1..Len(values) :
        /\ \A k \in 1..Len(values) : ~U64Less(values[i], values[k])
        /\ \A k \in 1..(i - 1) : values[k] # values[i]) - 1

\* embed_text / scale_to_u64: the query embedding, quantised with SCALE_FACTOR
ScaleToU64(embedding) == [j \in 1..Len(embedding) |-> QuantiseValue(embedding[j])]

\* the coordinates of the client specification: -0.015 (stored as 0) and 0.02
ClientCoordinates == {-3, 4}

\* the first R of these texts are the records
ClientRecords == <<<<65>>, <<66>>>>

\* the error values of a round-1 ciphertext: 0 and -1
ClientErrors == {ZeroU64, U64Neg(UsizeAsU64(1))}

InitClient ==
    /\ cl_pc = "start"
    /\ cl_variant \in {"Client", "NetworkClient", "main"}
    /\ cl_records \in 1..EmbSide
    /\ \E embedder \in EmbeddersOver(ClientCoordinates) :
       \E text \in EmbTexts :
       \E seed \in Seeds :
         LET matrix == StringsToEmbeddingMatrix(SubSeq(ClientRecords, 1, cl_records), embedder)
             db == DatabaseFromMatrix(matrix.data, MOD_POWER)
             hints == PirSetup(db, SecretDim, seed)
         IN  /\ cl_db = db
             /\ cl_a = GenPublic(hints.server_hint, SideLen(db), SecretDim)
             /\ cl_hint = hints.client_hint
             /\ cl_v = ScaleToU64(embedder[text])
    /\ cl_secret = <<>> /\ cl_query = <<>> /\ cl_answer = <<>> /\ cl_scores = <<>>
    /\ cl_index = 0 /\ cl_round2 = <<>>
    /\ CodecIdle
    /\ MatrixIdle
    /\ TextPirIdle
    /\ EmbedIdle
    /\ BinServerIdle
    /\ NetServerIdle
    /\ ClientUpdateIdle
    /\ QueryIdle
    /\ NetUpdateIdle

\* let (s_embedding, query_embedding) =
\*     generate_query(params, &Self::adjust_embedding(embedding, m_embedding), a);
GenerateQuery ==
    /\ cl_pc = "start"
    /\ cl_variant \in {"Client", "NetworkClient"}
    /\ \E s \in Vectors(SecretValues, SecretDim) :
       \E e \in Vectors(ClientErrors, SideLen(cl_db)) :
         /\ cl_secret' = s
         /\ cl_query' = Encrypt(s, cl_a, e, cl_v, MOD_POWER)
    /\ cl_pc' = "queried"
    /\ UNCHANGED <<cl_variant, cl_records, cl_db, cl_a, cl_hint, cl_v, cl_answer,
                   cl_scores, cl_index, cl_round2>>
    /\ UNCHANGED notClientVars

\* main: let secret_key = gen_secret_key(config.secret_dimension, None);
\* let query_cipher =
\*     encrypt(&secret_key, &client_hint_matrix_emb, &query_vector, plain_mod).1;
EncryptQuery ==
    /\ cl_pc = "start"
    /\ cl_variant = "main"
    /\ \E s \in Vectors(SecretValues, SecretDim) :
       \E e \in Vectors(ClientErrors, SideLen(cl_db)) :
         /\ cl_secret' = s
         /\ cl_query' = Encrypt(s, cl_hint, e, cl_v, MOD_POWER)
    /\ cl_pc' = "queried"
    /\ UNCHANGED <<cl_variant, cl_records, cl_db, cl_a, cl_hint, cl_v, cl_answer,
                   cl_scores, cl_index, cl_round2>>
    /\ UNCHANGED notClientVars

\* SimplePirDatabase::respond: process_query(&self.data, query, params.q),
\* the product data * query; the client receives it
Respond ==
    /\ cl_pc = "queried"
    /\ cl_answer' = MatVec(cl_db.data, cl_query)
    /\ cl_pc' = "answered"
    /\ UNCHANGED <<cl_variant, cl_records, cl_db, cl_a, cl_hint, cl_v, cl_secret,
                   cl_query, cl_scores, cl_index, cl_round2>>
    /\ UNCHANGED notClientVars

\* let result_embedding = recover(hint, &s_embedding, &response_embedding, params);
Recover ==
    /\ cl_pc = "answered"
    /\ cl_variant \in {"Client", "NetworkClient"}
    /\ cl_scores' = RecoverRow([secret |-> cl_secret, index |-> 0], cl_hint,
                               cl_answer, MOD_POWER)
    /\ cl_pc' = "recovered"
    /\ UNCHANGED <<cl_variant, cl_records, cl_db, cl_a, cl_hint, cl_v, cl_secret,
                   cl_query, cl_answer, cl_index, cl_round2>>
    /\ UNCHANGED notClientVars

\* let max_idx = result_embedding.iter().enumerate().max_by_key(..)
SelectMaxIdx ==
    /\ cl_pc = "recovered"
    /\ cl_index' = MaxByKeyIndex(cl_scores)
    /\ cl_pc' = "selected"
    /\ UNCHANGED <<cl_variant, cl_records, cl_db, cl_a, cl_hint, cl_v, cl_secret,
                   cl_query, cl_answer, cl_scores, cl_round2>>
    /\ UNCHANGED notClientVars

\* main: let closest_index = find_closest_index(&embedding_answer);
SelectClosestIndex ==
    /\ cl_pc = "answered"
    /\ cl_variant = "main"
    /\ cl_index' = FindClosestIndex(cl_answer)
    /\ cl_pc' = "selected"
    /\ UNCHANGED <<cl_variant, cl_records, cl_db, cl_a, cl_hint, cl_v, cl_secret,
                   cl_query, cl_answer, cl_scores, cl_round2>>
    /\ UNCHANGED notClientVars

\* round 2 is issued for the index selected: generate_query(.., result_vec, ..)
\* and respond in Client::query, query(closest_index, ..) and query_text in main
IssueRound2 ==
    /\ cl_pc = "selected"
    /\ cl_round2' = OneHot(cl_index, SideLen(cl_db))
    /\ cl_pc' = "round2"
    /\ UNCHANGED <<cl_variant, cl_records, cl_db, cl_a, cl_hint, cl_v, cl_secret,
                   cl_query, cl_answer, cl_scores, cl_index>>
    /\ UNCHANGED notClientVars

NextClient ==
    \/ GenerateQuery
    \/ EncryptQuery
    \/ Respond
    \/ Recover
    \/ SelectMaxIdx
    \/ SelectClosestIndex
    \/ IssueRound2

SpecClient == InitClient /\ [][NextClient]_vars

\* column c (1-based) of the embedding database: record c's quantised embedding
EmbeddingColumn(c) == [j \in 1..SideLen(cl_db) |-> cl_db.data[j][c]]

\* the inner product of a vector of u64 with the query embedding, mod p
InnerProductModP(column) ==
    U64ModPow2(U64Sum([j \in 1..Len(column) |-> U64Mul(column[j], UsizeAsU64(cl_v[j]))]),
               MOD_POWER)

\* whether the scores have been recovered by Client::query or NetworkClient::query
ScoresRecovered ==
    cl_variant \in {"Client", "NetworkClient"} /\ cl_pc \in {"recovered", "selected", "round2"}

\* The engine as modelled recovers data * v mod p: position j of the scores is
\* the inner product of ROW j of the embedding database with the query.
ScoresAreRowProducts ==
    ScoresRecovered =>
        \A j \in 1..SideLen(cl_db) : cl_scores[j] = InnerProductModP(cl_db.data[j])

\* Client::query and NetworkClient::query select from the recovered scores
\* and issue round 2 after that.
LibraryClientsSelectFromScores ==
    (cl_variant \in {"Client", "NetworkClient"} /\ cl_pc \in {"selected", "round2"}) =>
        /\ cl_scores # <<>>
        /\ \A k \in 1..Len(cl_scores) : ~U64Less(cl_scores[cl_index + 1], cl_scores[k])

(***************************************************************************)
(* C1.  String codec round trip: for every valid UTF-8 string s, the empty *)
(* string and strings longer than 8 bytes included, decoding               *)
(* EncodedString::from(s) back to a String returns exactly s.              *)
(***************************************************************************)
C1_RoundTrip == codec_pc = "decoded" => decoded = original

\* a string of more than 8 bytes with a multi-byte character has been decoded
C1_Witness ==
    /\ codec_pc = "decoded"
    /\ Len(original) > 8
    /\ \E k \in 1..Len(original) : original[k] > 127
    /\ Len(encoded) = 3

(***************************************************************************)
(* C2.  Record-list round trip: for every ordered list of strings, lists   *)
(* that contain empty strings included, converting StringMatrix::new(list) *)
(* back to Vec<String> returns the same list: same length, same order.     *)
(***************************************************************************)
C2_ListRoundTrip == mx_pc = "decoded" => mx_decoded = mx_original

\* a list of three different records, one of them empty and not the last,
\* has been converted back
C2_Witness ==
    /\ mx_pc = "decoded"
    /\ Len(mx_original) = 3
    /\ mx_original[2] = <<>>
    /\ mx_original[1] # mx_original[3]
    /\ Len(mx_original[1]) > 8
    /\ mx_original[3] # <<>>

(***************************************************************************)
(* C5.  Text matrix layout: for every list of R >= 1 records,              *)
(* StringMatrix::new returns a square matrix of side N = max(R, W) with    *)
(* W = 1 + max over records of ceil(L_r / 8); column r holds record r's    *)
(* encoded cells from row 0 (the length) downward and every other cell is  *)
(* zero.  With a single record the matrix is still square and the round    *)
(* trip holds.                                                             *)
(***************************************************************************)
CeilDiv8(n) == (n + 7) \div 8

C5_W(list) == 1 + MaxOfSeq([r \in 1..Len(list) |-> CeilDiv8(Len(list[r]))], 0)

C5_Layout ==
    (mx_pc \in {"built", "decoded"} /\ Len(mx_original) >= 1) =>
        LET R == Len(mx_original)
            N == Max(R, C5_W(mx_original))
            D == mx_matrix.data
        IN  /\ Len(D) = N
            /\ \A j \in 1..N : Len(D[j]) = N
            /\ \A j \in 1..N : \A c \in 1..N :
                 D[j][c] =
                    IF c <= R /\ j <= 1 + CeilDiv8(Len(mx_original[c]))
                    THEN IF j = 1 THEN UsizeAsU64(Len(mx_original[c]))
                         ELSE EncodedStringFrom(mx_original[c])[j]
                    ELSE ZeroU64
            /\ (mx_pc = "decoded" /\ R = 1) => mx_decoded = mx_original

\* both shapes occur: a single record whose column is higher than the list is
\* long, and (second disjunct) a list longer than its highest column
C5_Witness ==
    /\ mx_pc = "decoded"
    /\ Len(mx_original) = 1
    /\ Len(mx_original[1]) = 17
    /\ Len(mx_matrix.data) = 4

C5_WitnessWide ==
    /\ mx_pc = "built"
    /\ Len(mx_original) = 3
    /\ \A r \in 1..3 : Len(mx_original[r]) <= 1
    /\ Len(mx_matrix.data) = 3

(***************************************************************************)
(* C3.  Text-round PIR correctness: for every record list and every index  *)
(* i < R, with D_txt built by StringMatrix::new and loaded with plaintext  *)
(* modulus p = 2^17, the sequence setup -> query(i) -> answer ->           *)
(* recover_row returns a vector equal cell for cell to column i of D_txt,  *)
(* so that decoding it with the string codec yields record i.              *)
(***************************************************************************)
C3_RecoversColumn ==
    /\ tp_pc \in {"recovered", "decoded"} => tp_record = QueriedColumn
    /\ tp_pc = "decoded" => tp_decoded = tp_texts[tp_index + 1]

(***************************************************************************)
(* C4.  Every cell of the text database matrix produced by the string      *)
(* codec is at most p - 1 for the plaintext modulus p = 2^17 used by the   *)
(* server, for every record list.                                          *)
(***************************************************************************)
C4_CellsBelowPlainMod == tp_pc # "start" => CellsArePlaintexts

(***************************************************************************)
(* C6.  Decoding a column whose length-prefixed bytes are not valid UTF-8  *)
(* returns a decode error to the caller; it does not return a string.      *)
(***************************************************************************)
\* what a decoder that reports the failure would hand back: no String
DecodeError == <<-2>>

C6_InvalidUtf8IsAnError ==
    (tp_pc = "decoded" /\ ~IsValidUtf8(DecodedBytes(tp_record))) =>
        tp_decoded = DecodeError

(***************************************************************************)
(* C7.  Top-1 selection: the client picks the index of the maximum entry   *)
(* of the recovered score vector, and when several entries are tied for    *)
(* the maximum it picks the lowest such index.                             *)
(***************************************************************************)
C7_LowestIndexOfMaximum ==
    (cl_variant \in {"Client", "NetworkClient"} /\ cl_pc \in {"selected", "round2"}) =>
        /\ \A k \in 1..Len(cl_scores) : ~U64Less(cl_scores[cl_index + 1], cl_scores[k])
        /\ \A k \in 1..cl_index : cl_scores[k] # cl_scores[cl_index + 1]

(***************************************************************************)
(* C8.  Within one query the rounds are strictly ordered: round 2 is never *)
(* issued before the round-1 answer has been received and recovered into   *)
(* scores, and the round-2 index is computed from those recovered scores,  *)
(* never from the raw answer.                                              *)
(***************************************************************************)
C8_Round2AfterRecovery ==
    /\ cl_pc \in {"selected", "round2"} =>
          /\ cl_answer # <<>>
          /\ cl_scores # <<>>
          /\ \A k \in 1..Len(cl_scores) : ~U64Less(cl_scores[cl_index + 1], cl_scores[k])
    /\ cl_round2 # <<>> => cl_pc = "round2"

C11_PaddingRowsAreZero ==
    (emb_pc = "done" /\ emb_result.kind = "ok") =>
        \A j \in (Len(emb_texts) + 1)..Len(emb_result.data) :
            \A c \in 1..Len(emb_result.data[j]) : emb_result.data[j][c] = ZeroU64

(***************************************************************************)
(* C12.  Quantisation of an embedding coordinate v is round(v * 100)       *)
(* reduced mod p: a negative coordinate is stored as its two's-complement  *)
(* residue p - |round(v * 100)| (it is not clamped to 0), and every stored *)
(* cell is less than p.                                                    *)
(***************************************************************************)
\* round(v * SCALE_FACTOR) mod p for v = k / F32Unit and p = 2^MOD_POWER
C12_RoundModP(k) == UsizeAsU64(F32Round(k * SCALE_FACTOR, F32Unit) % Pow2(MOD_POWER))

C12_TwosComplementModP ==
    (emb_pc = "done" /\ emb_result.kind = "ok") =>
        \A c \in 1..Len(emb_texts) : \A j \in 1..EmbSide :
            /\ emb_result.data[j][c] = C12_RoundModP(emb_embedder[emb_texts[c]][j])
            /\ U64BelowPow2(emb_result.data[j][c], MOD_POWER)

(***************************************************************************)
(* The server of src/src/bin/server.rs: update_market_data fetches the     *)
(* prices, stores them, and spawns a task that runs build_databases on the *)
(* texts generated from them and, when it returns Some, stores the new     *)
(* DatabaseState in db_state under its mutex.                              *)
(***************************************************************************)
\* the embedders a build may get from TextEmbedder::new(): one that embeds
\* every text, one whose embed fails on "B"
ServerEmbedders ==
    {(<<65>> :> <<4, -3>>) @@ (<<66>> :> <<1, 4>>),
     (<<65>> :> <<4, -3>>) @@ (<<66>> :> EmbedFailed)}

\* where a build fails outside the crate: TextEmbedder::new(), either
\* Database::from_matrix, or text_db.compress(); "none": nowhere
BuildFaults == {"none", "embedder", "embedding_db", "text_db", "compress"}

\* build_databases(texts): None with the step that failed, a panic out of
\* strings_to_embedding_matrix, or Some(DatabaseState)
BuildDatabases(texts, embedder, fault, seed_emb, seed_txt) ==
    LET matrix == StringsToEmbeddingMatrix(texts, embedder)
        embedding_db == DatabaseFromMatrix(matrix.data, MOD_POWER)
        text_db == DatabaseFromMatrix(StringMatrixNew(texts).data, MOD_POWER)
    IN  IF fault = "embedder" THEN [kind |-> "None", failed |-> "embedder"]
        ELSE IF matrix.kind = "err" THEN [kind |-> "None", failed |-> "embedding matrix"]
        ELSE IF matrix.kind = "panic" THEN [kind |-> "panic", failed |-> "embedding matrix"]
        ELSE IF fault = "embedding_db" THEN [kind |-> "None", failed |-> "embedding database"]
        ELSE IF fault = "text_db" THEN [kind |-> "None", failed |-> "text database"]
        ELSE IF fault = "compress" THEN [kind |-> "None", failed |-> "compress"]
        ELSE [kind |-> "Some",
              failed |-> "nothing",
              embedding_db |-> embedding_db,
              text_db |-> text_db,
              server_hints |-> <<seed_emb, seed_txt>>,
              client_hints |-> <<PirSetup(embedding_db, SecretDim, seed_emb).client_hint,
                                 PirSetup(text_db, SecretDim, seed_txt).client_hint>>]

\* if let Some(new_state) = build_databases(&texts).await {
\*     *state_clone.db_state.lock().unwrap() = Some(new_state); }
Publish(db_state, built) ==
    IF built.kind = "Some" THEN [k \in DOMAIN built \ {"failed"} |-> built[k]] ELSE db_state

\* the record lists of the server: "A", "B", "A", .. cut after 0 to
\* MaxEmbRecords texts, and "B", "A"
ServerTexts ==
    {[k \in 1..n |-> IF k % 2 = 1 THEN <<65>> ELSE <<66>>] : n \in 0..MaxEmbRecords}
        \cup {<<<<66>>, <<65>>>>}

\* the seeds the two calls of setup sample, embedding database first
ServerSeeds == {<<UsizeAsU64(1), PrgMul>>, <<PrgMul, PrgMul>>}

\* what get_market_prices and generate_market_texts yield: an error, or the
\* texts of the prices fetched (none for no prices)
Fetched ==
    {[ok |-> FALSE, texts |-> <<>>]} \cup {[ok |-> TRUE, texts |-> l] : l \in ServerTexts}

\* a sequence without its i-th element
RemoveAt(seq, i) == SubSeq(seq, 1, i - 1) \o SubSeq(seq, i + 1, Len(seq))

InitBinServer ==
    /\ bs_updates = 0
    /\ bs_market = 0
    /\ bs_tasks = <<>>
    /\ bs_db_state = NoState
    /\ bs_done = NoBuild
    /\ bs_fetches = <<>>
    /\ bs_built_from = 0
    /\ CodecIdle
    /\ MatrixIdle
    /\ TextPirIdle
    /\ EmbedIdle
    /\ ClientIdle
    /\ NetServerIdle
    /\ ClientUpdateIdle
    /\ QueryIdle
    /\ NetUpdateIdle

\* update_market_data(&state): on Ok the market data is stored at once and the
\* build of the databases is spawned; on Err nothing changes
UpdateMarketData ==
    /\ bs_updates < MaxUpdates
    /\ bs_updates' = bs_updates + 1
    /\ \E fetched \in Fetched :
         IF fetched.ok
         THEN /\ bs_market' = bs_updates + 1
              /\ bs_tasks' = Append(bs_tasks, fetched.texts)
              /\ bs_fetches' = Append(bs_fetches, bs_updates + 1)
         ELSE UNCHANGED <<bs_market, bs_tasks, bs_fetches>>
    /\ UNCHANGED <<bs_db_state, bs_done, bs_built_from>>
    /\ UNCHANGED notBinServerVars

\* the spawned task i runs build_databases to its end and publishes
FinishBuild(i) ==
    /\ i \in 1..Len(bs_tasks)
    /\ \E embedder \in ServerEmbedders : \E fault \in BuildFaults :
       \E seeds \in ServerSeeds :
         LET built == BuildDatabases(bs_tasks[i], embedder, fault, seeds[1], seeds[2])
         IN  /\ bs_db_state' = Publish(bs_db_state, built)
             /\ bs_done' = [texts |-> bs_tasks[i],
                            outcome |-> IF built.kind = "Some" THEN "published"
                                        ELSE IF built.kind = "panic" THEN "panic"
                                        ELSE built.failed]
             /\ bs_built_from' = IF built.kind = "Some" THEN bs_fetches[i]
                                 ELSE bs_built_from
    /\ bs_tasks' = RemoveAt(bs_tasks, i)
    /\ bs_fetches' = RemoveAt(bs_fetches, i)
    /\ UNCHANGED <<bs_updates, bs_market>>
    /\ UNCHANGED notBinServerVars

BuildFinishes == \E i \in 1..Len(bs_tasks) : FinishBuild(i)

NextBinServer ==
    \/ UpdateMarketData
    \/ BuildFinishes

SpecBinServer == InitBinServer /\ [][NextBinServer]_vars

(***************************************************************************)
(* C13.  Empty record set: building from an empty list of records fails    *)
(* with an error, the server publishes no database state for it, and       *)
(* whatever state was published before (none, or the previous one) is left *)
(* in place.                                                               *)
(***************************************************************************)
C13_EmptyBuildPublishesNothing ==
    [][\A i \in 1..Len(bs_tasks) :
          (FinishBuild(i) /\ bs_tasks[i] = <<>>) =>
              /\ \A embedder \in ServerEmbedders :
                    StringsToEmbeddingMatrix(bs_tasks[i], embedder).kind = "err"
              /\ bs_done'.outcome \in {"embedder", "embedding matrix"}
              /\ bs_db_state' = bs_db_state]_vars

\* a build from no texts has failed in strings_to_embedding_matrix while a
\* state published before it is in place
C13_Witness ==
    /\ bs_done.texts = <<>>
    /\ bs_done.outcome = "embedding matrix"
    /\ bs_db_state.kind = "Some"

\* the same, with nothing published before
C13_WitnessNone ==
    /\ bs_done.texts = <<>>
    /\ bs_done.outcome = "embedding matrix"
    /\ bs_db_state = NoState

(***************************************************************************)
(* The server of src/src/network.rs: run_server keeps one Database behind  *)
(* a RwLock; its update task takes the write lock on every tick and calls  *)
(* db.update() twice; the handlers of /params, /a, /query and /hint take   *)
(* the read lock.  A client sends the four requests of one round in the    *)
(* order of NetworkClient::query.  A database is abstracted to the epoch   *)
(* (the number of the update) each of its fields was written by.           *)
(***************************************************************************)
\* update_db that keeps the matrix A of the update before
UpdateDb_KeepsA(db, epoch) == [db EXCEPT !.data = epoch, !.params = epoch, !.hint = epoch]

\* SimplePirDatabase::update_db(data): data, params, hint and a of one epoch
UpdateDb(db, epoch) == [data |-> epoch, params |-> epoch, hint |-> epoch, a |-> epoch]

\* how a call of update() ends: Ok, Err (the script failed, its output is not
\* JSON, the embedder failed) or a panic (an unwrap or the assert_eq!)
UpdateOutcomes == {"ok", "err", "panic"}

\* update() that has stored the new data when a later step fails
DatabaseUpdate_DataFirst(db, outcome) ==
    IF outcome = "ok" THEN UpdateDb(db, db.data + 1) ELSE [db EXCEPT !.data = db.data + 1]

\* EmbeddingDatabase::update / EncodingDatabase::update: update_db is the
\* last step and the only one that writes
DatabaseUpdate(db, outcome) ==
    IF outcome = "ok" THEN UpdateDb(db, db.data + 1) ELSE db

\* the requests of one round, in the order NetworkClient::query sends them
RoundRequests == <<"params", "a", "query", "hint">>

\* the body of a POST /query: a vector of decimal integers as long as the
\* database side, one with an element that is not a decimal integer, or one
\* of another length
QueryBodies == {"well_formed", "not_integer", "wrong_length"}

\* deserialize_vector(&request.query): x.parse().unwrap() on every element
DeserializeVector(body) == IF body = "not_integer" THEN "panic" ELSE "ok"

\* what a handler does with the database it reads: handle_params, handle_a
\* and handle_hint unwrap the Option, handle_query unwraps respond, which
\* unwraps params and multiplies data by the query
HandleRequest(db, kind, body) ==
    IF kind = "query"
    THEN IF DeserializeVector(body) = "panic" THEN [result |-> "panic", epoch |-> 0]
         ELSE IF db.params = 0 THEN [result |-> "panic", epoch |-> 0]
         ELSE IF body = "wrong_length" THEN [result |-> "panic", epoch |-> 0]
         ELSE [result |-> "ok", epoch |-> db.data]
    ELSE IF db[kind] = 0 THEN [result |-> "panic", epoch |-> 0]
         ELSE [result |-> "ok", epoch |-> db[kind]]

InitNetServer ==
    /\ ns_db = NewSimplePirDatabase
    /\ ns_lock = "free"
    /\ ns_updater = "waiting"
    /\ ns_ticks = 0
    /\ ns_log = "none"
    /\ nc_pc = "ready"
    /\ nc_step = 1
    /\ nc_req = NoRequest
    /\ nc_seen = NothingSeen
    /\ nc_response = "none"
    /\ CodecIdle
    /\ MatrixIdle
    /\ TextPirIdle
    /\ EmbedIdle
    /\ ClientIdle
    /\ BinServerIdle
    /\ ClientUpdateIdle
    /\ QueryIdle
    /\ NetUpdateIdle

\* interval.tick().await; let mut db = update_state.db.write().await;
Tick ==
    /\ ns_updater = "waiting"
    /\ ns_ticks < MaxTicks
    /\ ns_lock = "free"
    /\ ns_lock' = "write"
    /\ ns_updater' = "first"
    /\ ns_ticks' = ns_ticks + 1
    /\ UNCHANGED <<ns_db, ns_log, nc_pc, nc_step, nc_req, nc_seen, nc_response>>
    /\ UNCHANGED notNetServerVars

\* one of the two db.update() calls of the loop body, under the write lock;
\* the guard is dropped after the second, or when the task panics
UpdateCall ==
    /\ ns_updater \in {"first", "second"}
    /\ \E outcome \in UpdateOutcomes :
         /\ ns_db' = DatabaseUpdate(ns_db, outcome)
         /\ ns_log' = outcome
         /\ ns_updater' = IF outcome = "panic" THEN "dead"
                          ELSE IF ns_updater = "first" THEN "second" ELSE "waiting"
         /\ ns_lock' = IF outcome = "panic" \/ ns_updater = "second" THEN "free" ELSE "write"
    /\ UNCHANGED <<ns_ticks, nc_pc, nc_step, nc_req, nc_seen, nc_response>>
    /\ UNCHANGED notNetServerVars

\* the client sends the next request of the round
SendRequest ==
    /\ nc_pc = "ready"
    /\ \E body \in QueryBodies :
         /\ RoundRequests[nc_step] # "query" => body = "well_formed"
         /\ nc_req' = [kind |-> RoundRequests[nc_step], body |-> body, stage |-> "sent"]
    /\ nc_pc' = "waiting"
    /\ UNCHANGED <<ns_db, ns_lock, ns_updater, ns_ticks, ns_log, nc_step, nc_seen,
                   nc_response>>
    /\ UNCHANGED notNetServerVars

\* let db = state.db.read().await; while the update task holds the write lock
HandlerWaits ==
    /\ nc_req.stage = "sent"
    /\ ns_lock = "write"
    /\ DeserializeVector(nc_req.body) = "ok"
    /\ nc_req' = [nc_req EXCEPT !.stage = "blocked"]
    /\ UNCHANGED <<ns_db, ns_lock, ns_updater, ns_ticks, ns_log, nc_pc, nc_step, nc_seen,
                   nc_response>>
    /\ UNCHANGED notNetServerVars

\* the handler runs to its end and the client takes the response: the next
\* request after a response, Err out of query() (the `?`) after a panic
Handle ==
    /\ nc_req.stage \in {"sent", "blocked"}
    /\ ns_lock = "free" \/ DeserializeVector(nc_req.body) = "panic"
    /\ LET response == HandleRequest(ns_db, nc_req.kind, nc_req.body)
       IN  /\ nc_response' = response.result
           /\ IF response.result = "ok"
              THEN /\ nc_seen' = [nc_seen EXCEPT ![nc_req.kind] = response.epoch]
                   /\ nc_step' = nc_step + 1
                   /\ nc_pc' = IF nc_step = Len(RoundRequests) THEN "done" ELSE "ready"
              ELSE /\ nc_pc' = "failed"
                   /\ UNCHANGED <<nc_seen, nc_step>>
    /\ nc_req' = NoRequest
    /\ UNCHANGED <<ns_db, ns_lock, ns_updater, ns_ticks, ns_log>>
    /\ UNCHANGED notNetServerVars

NextNetServer ==
    \/ Tick
    \/ UpdateCall
    \/ SendRequest
    \/ HandlerWaits
    \/ Handle

SpecNetServer == InitNetServer /\ [][NextNetServer]_vars

\* the two servers side by side: either one runs
InitServers == InitBinServer \/ InitNetServer

NextServers == NextBinServer \/ NextNetServer

SpecServers == InitServers /\ [][NextServers]_vars

(***************************************************************************)
(* C14.  If a rebuild fails at any step (record fetch, embedding, matrix   *)
(* or database construction, compression check), the previously published  *)
(* data, params, hint and A are left exactly as they were and keep serving *)
(* queries.                                                                *)
(***************************************************************************)
C14_FailedRebuildLeavesState ==
    /\ [][/\ (UpdateCall /\ ns_log' # "ok") => ns_db' = ns_db
          /\ UpdateMarketData => bs_db_state' = bs_db_state
          /\ \A i \in 1..Len(bs_tasks) :
                (FinishBuild(i) /\ bs_done'.outcome # "published") =>
                    bs_db_state' = bs_db_state]_vars
    /\ [](ns_updater = "dead" => ns_lock = "free")

\* an update() of run_server has failed after another had succeeded: the
\* database of that epoch is in place and the lock is free for the handlers
C14_Witness ==
    /\ ns_log = "err"
    /\ ns_lock = "free"
    /\ ns_db = UpdateDb(ns_db, 1)

\* the same in bin/server.rs: a build has failed at the compression check
\* with a state published before it in place
C14_WitnessBuild ==
    /\ bs_done.outcome = "compress"
    /\ bs_db_state.kind = "Some"

(***************************************************************************)
(* Client::update (src/src/client.rs): encoding_db.update()? and then      *)
(* embedding_db.update()?, each of which runs the script that returns the  *)
(* records of the moment and rebuilds its database from them               *)
(* (src/src/server.rs).  A database is abstracted to the record list it    *)
(* was built from; <<>> is the database as constructed.                    *)
(***************************************************************************)
\* the record lists the script may return: "A"; "A", "B"; "B", "A"
Corpora == {<<<<65>>>>, <<<<65>>, <<66>>>>, <<<<66>>, <<65>>>>}

\* Database::update on a database built from `records`, the script returning
\* `corpus`: the records the database is built from afterwards
RecordsAfterUpdate(records, corpus, outcome) == IF outcome = "ok" THEN corpus ELSE records

InitClientUpdate ==
    /\ cu_pc = "ready"
    /\ cu_calls = 0
    /\ cu_corpus \in Corpora
    /\ cu_encoding = <<>>
    /\ cu_embedding = <<>>
    /\ cu_result = "none"
    /\ CodecIdle
    /\ MatrixIdle
    /\ TextPirIdle
    /\ EmbedIdle
    /\ ClientIdle
    /\ BinServerIdle
    /\ NetServerIdle
    /\ QueryIdle
    /\ NetUpdateIdle

\* the records behind the script change
CorpusChanges ==
    /\ cu_pc \in {"ready", "encoding_done"}
    /\ cu_corpus' \in Corpora \ {cu_corpus}
    /\ UNCHANGED <<cu_pc, cu_calls, cu_encoding, cu_embedding, cu_result>>
    /\ UNCHANGED notClientUpdateVars

\* self.encoding_db.update()?;
UpdateEncodingDb ==
    /\ cu_pc = "ready"
    /\ cu_calls < MaxClientUpdates
    /\ cu_calls' = cu_calls + 1
    /\ \E outcome \in UpdateOutcomes :
         /\ cu_encoding' = RecordsAfterUpdate(cu_encoding, cu_corpus, outcome)
         /\ cu_pc' = IF outcome = "ok" THEN "encoding_done"
                     ELSE IF outcome = "err" THEN "ready" ELSE "panicked"
         /\ cu_result' = IF outcome = "err" THEN "err" ELSE cu_result
    /\ UNCHANGED <<cu_corpus, cu_embedding>>
    /\ UNCHANGED notClientUpdateVars

\* self.embedding_db.update()?; Ok(())
UpdateEmbeddingDb ==
    /\ cu_pc = "encoding_done"
    /\ \E outcome \in UpdateOutcomes :
         /\ cu_embedding' = RecordsAfterUpdate(cu_embedding, cu_corpus, outcome)
         /\ cu_pc' = IF outcome = "panic" THEN "panicked" ELSE "ready"
         /\ cu_result' = IF outcome = "panic" THEN cu_result ELSE outcome
    /\ UNCHANGED <<cu_calls, cu_corpus, cu_encoding>>
    /\ UNCHANGED notClientUpdateVars

NextClientUpdate ==
    \/ CorpusChanges
    \/ UpdateEncodingDb
    \/ UpdateEmbeddingDb

SpecClientUpdate == InitClientUpdate /\ [][NextClientUpdate]_vars

(***************************************************************************)
(* C15.  At every state a client can observe, the embedding database and   *)
(* the text database are built from the same record list in the same order *)
(* (the same refresh epoch): no update leaves one of the two refreshed and *)
(* the other not, also when the second rebuild fails.                      *)
(***************************************************************************)
C15_SameRecordsInBoth == cu_pc = "ready" => cu_encoding = cu_embedding

(***************************************************************************)
(* C16.  No torn reads: within one client query, the params, public matrix *)
(* A, hint and answer used for a round all come from the same server       *)
(* epoch, also when a refresh runs between the client's requests.          *)
(***************************************************************************)
C16_OneEpochPerRound ==
    nc_pc = "done" =>
        /\ nc_seen.a = nc_seen.params
        /\ nc_seen.query = nc_seen.params
        /\ nc_seen.hint = nc_seen.params

(***************************************************************************)
(* C17.  While a rebuild is in progress, a concurrent read request (query, *)
(* params, hint, A) is served from the previously published database and   *)
(* does not wait for the rebuild to finish.                                *)
(***************************************************************************)
C17_ReadsDoNotWait == ~(ns_updater \in {"first", "second"} /\ nc_req.stage = "blocked")

(***************************************************************************)
(* C18.  A request that reaches the server before the first refresh has    *)
(* completed (params, hint, A or query) gets a well-formed not-ready       *)
(* result; the handler does not panic, and the client polls instead of     *)
(* aborting.                                                               *)
(***************************************************************************)
C18_NotReadyIsAnswered ==
    [][(Handle /\ ns_db.params = 0 /\ nc_req.body = "well_formed") =>
          /\ nc_response' = "not_ready"
          /\ nc_pc' = "ready"]_vars

(***************************************************************************)
(* C19.  A query request with a malformed body (an element that is not a   *)
(* decimal integer, or a vector whose length differs from the database     *)
(* side) produces an error response; the server handler never panics on    *)
(* client input.                                                           *)
(***************************************************************************)
C19_MalformedBodyIsAnError ==
    [][(Handle /\ nc_req.body \in {"not_integer", "wrong_length"}) =>
          nc_response' = "error"]_vars

(***************************************************************************)
(* C20.  Encoding format: EncodedString::from(s) for a string of L bytes   *)
(* yields exactly 1 + ceil(L/8) cells; cell 0 is L, and cell 1+k holds     *)
(* bytes 8k..8k+7 with byte j of the chunk in bits 8j..8j+7                *)
(* (little-endian), the missing trailing bytes of the last cell being      *)
(* zero.                                                                   *)
(***************************************************************************)
C20_EncodingFormat ==
    codec_pc \in {"encoded", "decoded"} =>
        LET L == Len(original)
        IN  /\ Len(encoded) = 1 + CeilDiv8(L)
            /\ encoded[1] = <<L % 256, L \div 256, 0, 0, 0, 0, 0, 0>>
            /\ \A k \in 0..(CeilDiv8(L) - 1) : \A j \in 0..7 :
                 encoded[2 + k][j + 1] =
                    IF 8 * k + j < L THEN original[8 * k + j + 1] ELSE 0

\* a string of 9 bytes has been encoded: a full cell, then a cell of one byte
\* and seven zero bytes
C20_Witness ==
    /\ codec_pc = "encoded"
    /\ Len(original) = 9
    /\ Len(encoded) = 3
    /\ encoded[3][1] # 0
    /\ \A j \in 2..8 : encoded[3][j] = 0

(***************************************************************************)
(* C21.  strings_to_embedding_matrix succeeds for every non-empty record   *)
(* list of any size R and returns a square matrix of side max(384, R)      *)
(* (384 x 384 when R <= 384, as the tests assert); it never indexes        *)
(* outside the matrix.                                                     *)
(***************************************************************************)
C21_SquareOfSideMax ==
    (/\ emb_pc = "done"
     /\ Len(emb_texts) >= 1
     /\ \A i \in 1..Len(emb_texts) : emb_embedder[emb_texts[i]] # EmbedFailed) =>
        /\ emb_result.kind = "ok"
        /\ Len(emb_result.data) = Max(EmbSide, Len(emb_texts))
        /\ \A j \in 1..Len(emb_result.data) :
              Len(emb_result.data[j]) = Max(EmbSide, Len(emb_texts))

(***************************************************************************)
(* C22.  Rebuilds of the server's databases are mutually exclusive and     *)
(* publish in order: at most one rebuild is in progress at any time, and   *)
(* a snapshot built from an earlier fetch never replaces one built from a  *)
(* later fetch.                                                            *)
(***************************************************************************)
C22_OneRebuildAtATime == Len(bs_tasks) <= 1

\* the second half of C22 alone: db_state never goes back to an earlier fetch
C22_PublishedInFetchOrder == [][bs_built_from' >= bs_built_from]_vars

C22_RebuildsExclusiveAndOrdered ==
    /\ []C22_OneRebuildAtATime
    /\ C22_PublishedInFetchOrder

(***************************************************************************)
(* C23.  Whenever a database exposes params, hint and A, the hint is the   *)
(* one generated from the current data with the current A and params:     *)
(* the four are of one update, never a mix of two; before the first       *)
(* update params, hint and A are all absent.                              *)
(***************************************************************************)
C23_HintOfCurrentData ==
    IF ns_db.data = 0
    THEN ns_db.params = 0 /\ ns_db.hint = 0 /\ ns_db.a = 0
    ELSE ns_db.params = ns_db.data /\ ns_db.hint = ns_db.data /\ ns_db.a = ns_db.data

\* the database after its second update, the updater back from update()
C23_Witness == ns_db.data = 2 /\ ns_db.hint = 2 /\ ns_lock = "free"

(***************************************************************************)
(* Client::query and Client::query_top_k (src/src/client.rs 36-105) as     *)
(* the sequence of their calls into the PIR engine: generate_query draws   *)
(* a secret and encrypts a vector, the database responds or fails, and     *)
(* recover decrypts a response with a secret.  The engine (crate           *)
(* simplepir) is abstracted to which secret a query was made with and      *)
(* which query a response answers; the scores round 1 recovers are an      *)
(* input.                                                                  *)
(***************************************************************************)
\* the longest score vector, and the largest m of the encoding database
MaxScores == 3

\* the largest score
MaxScore == 2

\* adjust_embedding(embedding, m): the vector itself, the vector followed by
\* zeros, or its first m entries
AdjustEmbedding(embedding, m) ==
    IF Len(embedding) = m THEN embedding
    ELSE IF Len(embedding) < m
         THEN [j \in 1..m |-> IF j <= Len(embedding) THEN embedding[j] ELSE 0]
         ELSE SubSeq(embedding, 1, m)

\* the place (1-based) a stable sort by descending value gives index i
\* (0-based), were equal values kept in descending index order
SortedPlace_TiesDescending(values, i) ==
    Cardinality({j \in 0..(Len(values) - 1) :
                    \/ U64Less(values[i + 1], values[j + 1])
                    \/ values[j + 1] = values[i + 1] /\ j > i}) + 1

\* the place (1-based) indexed_values.sort_by(|(_, v1), (_, v2)| v2.cmp(v1))
\* gives index i (0-based): after every larger value and, the sort being
\* stable, after the equal values of lower index
SortedPlace(values, i) ==
    Cardinality({j \in 0..(Len(values) - 1) :
                    \/ U64Less(values[i + 1], values[j + 1])
                    \/ values[j + 1] = values[i + 1] /\ j < i}) + 1

\* top_indices: the indices (0-based) in sorted order
TopIndices(values) ==
    [place \in 1..Len(values) |->
        CHOOSE i \in 0..(Len(values) - 1) : SortedPlace(values, i) = place]

\* generate_query(params, vector, a): a secret not drawn before and the
\* encryption of the vector under it
GenerateQueryCall(drawn, vector) == [secret |-> drawn + 1, vec |-> vector]

\* db.respond(&query): the answer to this query, or an error
RespondOutcomes == {"ok", "err"}

\* recover that decrypts with the secret of the first round
RecoverCall_FirstSecret(secret, query) == [secret |-> 1, answers |-> query.secret]

\* recover(hint, &s, &response, params): decrypts, with secret s, the response
\* to the query given
RecoverCall(secret, query) == [secret |-> secret, answers |-> query.secret]

\* the ? after respond that does not return
Question_GoesOn(outcome) == "go on"

\* the ? after respond: an Err returns from the function
Question(outcome) == IF outcome = "err" THEN "return" ELSE "go on"

\* .unwrap() after respond: an Err panics
Unwrap(outcome) == IF outcome = "err" THEN "panic" ELSE "go on"

\* the score vectors: 1 to MaxScores scores of 0 to MaxScore
ScoreVectors ==
    {v \in ListsUpTo({UsizeAsU64(n) : n \in 0..MaxScore}, MaxScores) : Len(v) >= 1}

\* what embed_text returns: an error, or a vector of 2 or 3 coordinates
QueryEmbeddings == {EmbedFailed, <<4, 3>>, <<4, 3, 1>>}

InitQuery ==
    /\ qy_pc = "start"
    /\ qy_fn \in {"query", "query_top_k"}
    /\ qy_k \in IF qy_fn = "query" THEN {1} ELSE 0..(MaxScores + 1)
    /\ qy_embedding \in QueryEmbeddings
    /\ qy_m_encoding \in 1..MaxScores
    /\ qy_scores \in ScoreVectors
    /\ qy_drawn = 0
    /\ qy_requests = <<>>
    /\ qy_recovers = <<>>
    /\ qy_todo = <<>>
    /\ qy_result = NoCallResult
    /\ CodecIdle
    /\ MatrixIdle
    /\ TextPirIdle
    /\ EmbedIdle
    /\ ClientIdle
    /\ BinServerIdle
    /\ NetServerIdle
    /\ ClientUpdateIdle
    /\ NetUpdateIdle

\* lines 51-68 of query, 78-95 of query_top_k: embed the text, run round 1
\* on the embedding database and select the indices to fetch
Round1 ==
    /\ qy_pc = "start"
    /\ IF qy_embedding = EmbedFailed
       THEN /\ qy_result' = [kind |-> "err"]
            /\ qy_pc' = "returned"
            /\ UNCHANGED <<qy_drawn, qy_requests, qy_recovers, qy_todo>>
       ELSE LET query == GenerateQueryCall(qy_drawn,
                             AdjustEmbedding(qy_embedding, Len(qy_scores)))
            IN  /\ qy_drawn' = query.secret
                /\ \E outcome \in RespondOutcomes :
                     /\ qy_requests' = Append(qy_requests,
                                          [db |-> "embedding", index |-> -1,
                                           secret |-> query.secret, vec |-> query.vec,
                                           outcome |-> outcome])
                     /\ IF Question(outcome) = "return"
                        THEN /\ qy_result' = [kind |-> "err"]
                             /\ qy_pc' = "returned"
                             /\ UNCHANGED <<qy_recovers, qy_todo>>
                        ELSE /\ qy_recovers' = Append(qy_recovers,
                                                   RecoverCall(query.secret, query))
                             /\ IF qy_fn = "query"
                                THEN /\ qy_todo' = <<MaxByKeyIndex(qy_scores)>>
                                     /\ qy_pc' = "fetching"
                                     /\ UNCHANGED qy_result
                                ELSE IF qy_k > Len(qy_scores)
                                THEN /\ qy_result' = [kind |-> "panic"]
                                     /\ qy_pc' = "returned"
                                     /\ UNCHANGED qy_todo
                                ELSE /\ qy_todo' = SubSeq(TopIndices(qy_scores), 1, qy_k)
                                     /\ qy_pc' = "fetching"
                                     /\ UNCHANGED qy_result
    /\ UNCHANGED <<qy_fn, qy_k, qy_embedding, qy_m_encoding, qy_scores>>
    /\ UNCHANGED notQueryVars

\* lines 66-72 of query, 96-103 of query_top_k: the fetch of one selected
\* index from the encoding database
FetchRecord ==
    /\ qy_pc = "fetching"
    /\ qy_todo # <<>>
    /\ LET idx == Head(qy_todo)
           query == GenerateQueryCall(qy_drawn,
                        AdjustEmbedding(OneHot(idx, Len(qy_scores)), qy_m_encoding))
       IN  /\ qy_drawn' = query.secret
           /\ \E outcome \in RespondOutcomes :
                LET after == IF qy_fn = "query" THEN Question(outcome)
                             ELSE Unwrap(outcome)
                IN  /\ qy_requests' = Append(qy_requests,
                                         [db |-> "encoding", index |-> idx,
                                          secret |-> query.secret, vec |-> query.vec,
                                          outcome |-> outcome])
                    /\ IF after = "go on"
                       THEN /\ qy_recovers' = Append(qy_recovers,
                                                  RecoverCall(query.secret, query))
                            /\ qy_todo' = Tail(qy_todo)
                            /\ UNCHANGED <<qy_pc, qy_result>>
                       ELSE /\ qy_result' = [kind |-> IF after = "return" THEN "err"
                                                      ELSE "panic"]
                            /\ qy_pc' = "returned"
                            /\ UNCHANGED <<qy_recovers, qy_todo>>
    /\ UNCHANGED <<qy_fn, qy_k, qy_embedding, qy_m_encoding, qy_scores>>
    /\ UNCHANGED notQueryVars

\* line 74 of query, the end of collect() in query_top_k: Ok(..)
ReturnOk ==
    /\ qy_pc = "fetching"
    /\ qy_todo = <<>>
    /\ qy_result' = [kind |-> "ok"]
    /\ qy_pc' = "returned"
    /\ UNCHANGED <<qy_fn, qy_k, qy_embedding, qy_m_encoding, qy_scores, qy_drawn,
                   qy_requests, qy_recovers, qy_todo>>
    /\ UNCHANGED notQueryVars

NextQuery ==
    \/ Round1
    \/ FetchRecord
    \/ ReturnOk

SpecQuery == InitQuery /\ [][NextQuery]_vars

\* the requests sent to one database, each with the selected index it
\* fetches (-1 in round 1) and with what respond returned to it
RequestsTo(db) == SelectSeq(qy_requests, LAMBDA r : r.db = db)

(***************************************************************************)
(* C24.  Every PIR round draws a fresh LWE secret: the secret returned by  *)
(* one call of generate_query is used in exactly one recover, on the       *)
(* answer to the query made with it, and never again; this holds for each  *)
(* of the k fetches of query_top_k too.                                    *)
(***************************************************************************)
C24_OneSecretPerRound ==
    /\ \A i, j \in 1..Len(qy_requests) :
          i # j => qy_requests[i].secret # qy_requests[j].secret
    /\ \A i \in 1..Len(qy_recovers) :
          /\ qy_recovers[i].secret = qy_recovers[i].answers
          /\ \A j \in 1..Len(qy_recovers) :
                i # j => qy_recovers[i].secret # qy_recovers[j].secret
    /\ \A i \in 1..Len(qy_requests) :
          qy_requests[i].outcome = "ok" =>
             Cardinality({j \in 1..Len(qy_recovers) :
                             qy_recovers[j].secret = qy_requests[i].secret}) = 1

\* query_top_k with k = 2 has returned Ok: three rounds, three secrets
C24_Witness ==
    /\ qy_fn = "query_top_k"
    /\ qy_k = 2
    /\ qy_result.kind = "ok"
    /\ Len(qy_recovers) = 3

(***************************************************************************)
(* C25.  Client::query sends exactly one round-1 request and at most one   *)
(* round-2 request and never sends one again; if respond fails in round 1  *)
(* it returns that error without sending round 2.                          *)
(***************************************************************************)
C25_OneRequestPerRound ==
    qy_fn = "query" =>
        /\ Len(RequestsTo("embedding")) <= 1
        /\ Len(RequestsTo("encoding")) <= 1
        /\ (qy_pc = "returned" /\ qy_embedding # EmbedFailed) =>
               Len(RequestsTo("embedding")) = 1
        /\ RequestsTo("encoding") # <<>> =>
               /\ Len(RequestsTo("embedding")) = 1
               /\ qy_requests[1].db = "embedding"
        /\ \A i \in 1..Len(qy_requests) :
              (qy_requests[i].db = "embedding" /\ qy_requests[i].outcome = "err") =>
                 /\ qy_pc = "returned"
                 /\ qy_result.kind = "err"
                 /\ RequestsTo("encoding") = <<>>

\* respond has failed in round 1 of Client::query
C25_Witness ==
    /\ qy_fn = "query"
    /\ Len(qy_requests) = 1
    /\ qy_requests[1].outcome = "err"
    /\ qy_result.kind = "err"

\* both rounds of Client::query were sent and it returned Ok
C25_WitnessBothRounds ==
    /\ qy_fn = "query"
    /\ Len(qy_requests) = 2
    /\ qy_result.kind = "ok"

(***************************************************************************)
(* C26.  For every score vector, Client::query selects the same index as   *)
(* the first result of query_top_k with k = 1, ties between equal scores   *)
(* included.                                                               *)
(***************************************************************************)
C26_QuerySelectsFirstOfTopK ==
    (/\ qy_pc = "fetching"
     /\ Len(qy_requests) = 1
     /\ qy_fn = "query" \/ qy_k = 1) =>
        /\ qy_todo = <<MaxByKeyIndex(qy_scores)>>
        /\ qy_todo = <<TopIndices(qy_scores)[1]>>

(***************************************************************************)
(* C27.  For every pair (m_embedding, m_encoding), the selection vector of *)
(* round 2 of query, after adjust_embedding, has length m_encoding and     *)
(* exactly one entry 1, at the selected index; adjust_embedding keeps the  *)
(* first min(len, m) entries of its argument and pads with zeros.          *)
(***************************************************************************)
C27_SelectionVectorIsOneHot ==
    qy_fn = "query" =>
        \A i \in 1..Len(qy_requests) :
            LET r == qy_requests[i]
            IN  IF r.db = "encoding"
                THEN /\ Len(r.vec) = qy_m_encoding
                     /\ r.index + 1 \in 1..Len(r.vec)
                     /\ \A j \in 1..Len(r.vec) :
                           r.vec[j] = IF j = r.index + 1 THEN 1 ELSE 0
                ELSE /\ Len(r.vec) = Len(qy_scores)
                     /\ \A j \in 1..Len(r.vec) :
                           r.vec[j] = IF j <= Len(qy_embedding) THEN qy_embedding[j]
                                      ELSE 0

(***************************************************************************)
(* C28.  For every k with 0 <= k <= len(scores), query_top_k returns       *)
(* exactly k records, for k distinct indices in non-increasing order of    *)
(* score, indices of equal score in ascending order.                       *)
(***************************************************************************)
C28_TopKInScoreOrder ==
    (/\ qy_fn = "query_top_k"
     /\ qy_pc = "returned"
     /\ qy_k <= Len(qy_scores)
     /\ qy_embedding # EmbedFailed
     /\ \A i \in 1..Len(qy_requests) : qy_requests[i].outcome = "ok") =>
        LET fetched == RequestsTo("encoding")
            Score(i) == qy_scores[fetched[i].index + 1]
        IN  /\ qy_result.kind = "ok"
            /\ Len(fetched) = qy_k
            /\ \A i \in 1..Len(fetched) : fetched[i].index \in 0..(Len(qy_scores) - 1)
            /\ \A i, j \in 1..Len(fetched) :
                  i < j =>
                     /\ fetched[i].index # fetched[j].index
                     /\ ~U64Less(Score(i), Score(j))
                     /\ Score(i) = Score(j) => fetched[i].index < fetched[j].index
            /\ \A i \in 1..Len(fetched) :
                  \A n \in 0..(Len(qy_scores) - 1) :
                     (\A j \in 1..Len(fetched) : fetched[j].index # n) =>
                        ~U64Less(Score(i), qy_scores[n + 1])

\* query_top_k with k = 2 has returned the records of two equal scores
C28_Witness ==
    /\ qy_fn = "query_top_k"
    /\ qy_k = 2
    /\ qy_result.kind = "ok"
    /\ Len(RequestsTo("encoding")) = 2
    /\ qy_scores[qy_requests[2].index + 1] = qy_scores[qy_requests[3].index + 1]

\* query_top_k with k = 0 has returned no record
C28_WitnessNone ==
    /\ qy_fn = "query_top_k"
    /\ qy_k = 0
    /\ qy_result.kind = "ok"
    /\ Len(qy_requests) = 1

(***************************************************************************)
(* C29.  Every failure in Client::query and Client::query_top_k -- respond *)
(* failing in round 1 or in a round-2 fetch, or k greater than the number  *)
(* of scores -- is returned as Err; neither function panics.               *)
(***************************************************************************)
C29_FailuresAreErrors ==
    /\ qy_result.kind # "panic"
    /\ (/\ qy_pc = "returned"
        /\ \/ qy_embedding = EmbedFailed
           \/ \E i \in 1..Len(qy_requests) : qy_requests[i].outcome = "err"
           \/ qy_fn = "query_top_k" /\ qy_k > Len(qy_scores)) =>
          qy_result.kind = "err"

(***************************************************************************)
(* NetworkClient::update (src/src/network.rs 269-273) against the two      *)
(* servers started by run_server: RemoteDatabase::update posts to /update  *)
(* and returns Ok whenever a response arrives; the server's router         *)
(* dispatches the request to the handler registered for its method and     *)
(* path, and answers 404 when there is none.  Each server's own update     *)
(* task goes on updating its database.                                     *)
(***************************************************************************)
\* calls of NetworkClient::update
MaxNetUpdates == 2

\* updates a server's own update task performs
MaxServerEpoch == 3

\* Router::new().route(..): the handlers run_server registers
Routes ==
    {[method |-> "POST", path |-> "/query", handler |-> "handle_query"],
     [method |-> "GET", path |-> "/params", handler |-> "handle_params"],
     [method |-> "GET", path |-> "/hint", handler |-> "handle_hint"],
     [method |-> "GET", path |-> "/a", handler |-> "handle_a"]}

\* the handler the router runs for a request, "not_found" when no route
\* matches
RouteOf(method, path) ==
    IF \E r \in Routes : r.method = method /\ r.path = path
    THEN (CHOOSE r \in Routes : r.method = method /\ r.path = path).handler
    ELSE "not_found"

\* what comes back to self.client.post(..).send().await: a response, or an
\* error of the transport
Transports == {"delivered", "failed"}

\* the server's answer to one request: the status, and whether handle_update
\* ran (db.update().unwrap(): 200 on Ok, 500 on the panic)
Serve(method, path, outcome) ==
    LET handler == RouteOf(method, path)
    IN  IF handler = "not_found" THEN [status |-> 404, updated |-> FALSE]
        ELSE IF handler = "handle_update"
        THEN [status |-> IF outcome = "ok" THEN 200 ELSE 500, updated |-> outcome = "ok"]
        ELSE [status |-> 200, updated |-> FALSE]

\* RemoteDatabase::update on server s: post(base_url/update).send().await?;
\* Ok(()) -- the status of the response is not looked at
RemoteUpdate(s, transport, outcome) ==
    IF transport = "failed"
    THEN [result |-> "err", status |-> 0, updated |-> FALSE]
    ELSE LET response == Serve("POST", "/update", outcome)
         IN  [result |-> "ok", status |-> response.status, updated |-> response.updated]

InitNetUpdate ==
    /\ nu_pc = "ready"
    /\ nu_calls = 0
    /\ nu_epoch = [s \in {"encoding", "embedding"} |-> 0]
    /\ nu_reached = [s \in {"encoding", "embedding"} |-> FALSE]
    /\ nu_status = [s \in {"encoding", "embedding"} |-> 0]
    /\ nu_result = "none"
    /\ CodecIdle
    /\ MatrixIdle
    /\ TextPirIdle
    /\ EmbedIdle
    /\ ClientIdle
    /\ BinServerIdle
    /\ NetServerIdle
    /\ ClientUpdateIdle
    /\ QueryIdle

\* one tick of the update task of server s: db.update() twice, each of which
\* may fail
ServerUpdateTask(s) ==
    /\ nu_pc # "idle"
    /\ nu_epoch[s] < MaxServerEpoch
    /\ \E succeeded \in 0..2 :
         nu_epoch' = [nu_epoch EXCEPT ![s] = Min(nu_epoch[s] + succeeded, MaxServerEpoch)]
    /\ UNCHANGED <<nu_pc, nu_calls, nu_reached, nu_status, nu_result>>
    /\ UNCHANGED notNetUpdateVars

ServerUpdates == \E s \in {"encoding", "embedding"} : ServerUpdateTask(s)

\* self.encoding_db.update().await?;
UpdateRemoteEncoding ==
    /\ nu_pc = "ready"
    /\ nu_calls < MaxNetUpdates
    /\ nu_calls' = nu_calls + 1
    /\ \E transport \in Transports : \E outcome \in UpdateOutcomes :
         LET sent == RemoteUpdate(RemoteServers[1], transport, outcome)
         IN  /\ nu_reached' = [encoding |-> sent.updated, embedding |-> FALSE]
             /\ nu_status' = [encoding |-> sent.status, embedding |-> 0]
             /\ nu_pc' = IF sent.result = "ok" THEN "encoding_done" ELSE "ready"
             /\ nu_result' = IF sent.result = "ok" THEN "none" ELSE "err"
    /\ UNCHANGED nu_epoch
    /\ UNCHANGED notNetUpdateVars

\* self.embedding_db.update().await?; Ok(())
UpdateRemoteEmbedding ==
    /\ nu_pc = "encoding_done"
    /\ \E transport \in Transports : \E outcome \in UpdateOutcomes :
         LET sent == RemoteUpdate(RemoteServers[2], transport, outcome)
         IN  /\ nu_reached' = [nu_reached EXCEPT !.embedding = sent.updated]
             /\ nu_status' = [nu_status EXCEPT !.embedding = sent.status]
             /\ nu_result' = sent.result
    /\ nu_pc' = "ready"
    /\ UNCHANGED <<nu_calls, nu_epoch>>
    /\ UNCHANGED notNetUpdateVars

NextNetUpdate ==
    \/ ServerUpdates
    \/ UpdateRemoteEncoding
    \/ UpdateRemoteEmbedding

SpecNetUpdate == InitNetUpdate /\ [][NextNetUpdate]_vars

(***************************************************************************)
(* C30.  When NetworkClient::update returns Ok, both remote servers have   *)
(* performed an update: the request RemoteDatabase::update sends reaches   *)
(* handle_update on each of them.                                          *)
(***************************************************************************)
C30_OkMeansBothUpdated ==
    nu_result = "ok" =>
        /\ nu_reached.encoding /\ nu_reached.embedding
        /\ nu_status.encoding = 200 /\ nu_status.embedding = 200

=============================================================================
